---- MODULE Spec2Model ----
(***************************************************************************)
(* Model of the dataset module of mermaid-hub: the DataSet / DSMetaData    *)
(* rows, the view and download records, the request handlers that change   *)
(* them, and DataSetService.recommend_simple, the content-based ranker.    *)
(*                                                                         *)
(* Encoding of Python values:                                              *)
(*   - a str is a sequence of one-character strings ("a,b" is              *)
(*     <<"a", ",", "b">>); the NULL / None of a str column is NoneStr;     *)
(*   - the None of an integer column or argument is None (0): primary      *)
(*     keys are AUTO_INCREMENT and start at 1;                             *)
(*   - a value that may raise is Ok(v) or Raise(e);                        *)
(*   - the float score s is the exact fraction [num, den] with s = num/den *)
(*     (binary64 rounding is monotone and keeps fractions over one common  *)
(*     denominator below 2^40 apart, so the order of the keys is the same).*)
(***************************************************************************)
EXTENDS Integers, Sequences, FiniteSets, Bags, TLC

\* ------------------------------------------------------------------ bounds
MaxDatasets == 2
MaxRecords == 1

\* ------------------------------------------------------- Python encodings
None == 0
NoneStr == <<"None">>

Ok(v) == [exc |-> "", val |-> v]
Raise(e) == [exc |-> e, val |-> 0]

SeqToSet(s) == {s[i] : i \in DOMAIN s}

\* str.replace(",", " ")
replace_comma(s) == [i \in DOMAIN s |-> IF s[i] = "," THEN " " ELSE s[i]]

\* str.split() with no separator: the maximal runs of non-whitespace, in order
RECURSIVE split_from(_, _, _)
split_from(s, i, word) ==
    IF i > Len(s)
    THEN IF word = <<>> THEN <<>> ELSE <<word>>
    ELSE IF s[i] = " "
         THEN IF word = <<>>
              THEN split_from(s, i + 1, <<>>)
              ELSE <<word>> \o split_from(s, i + 1, <<>>)
         ELSE split_from(s, i + 1, Append(word, s[i]))

split(s) == split_from(s, 1, <<>>)

\* (tags or ""): None and "" are both falsy
or_empty(tags) == IF tags = NoneStr THEN <<>> ELSE tags

\* (mutant) set(ds.ds_meta_data.tags.replace(",", " ").split()): None has no
\* attribute replace
tag_set_no_guard(tags) ==
    IF tags = NoneStr THEN Raise("AttributeError")
    ELSE Ok(SeqToSet(split(replace_comma(tags))))

\* set((ds.ds_meta_data.tags or "").replace(",", " ").split())
tag_set(tags) == Ok(SeqToSet(split(replace_comma(or_empty(tags)))))

\* ---------------------------------------------------------------- state
\*   datasets          the DataSet rows with their DSMetaData, in query order
\*   view_records      bag of DSViewRecord rows (user_id, dataset_id, cookie)
\*   download_records  bag of DSDownloadRecord rows (user_id, dataset_id, cookie,
\*                     download_date)
\*   response          what the request in progress returns, until it is sent
\*   last_call         the last recommend_simple call that has returned, with
\*                     the pool and the popularity counts it has read
\*   now               the clock of the server, in days
\*   calls             per caller, the recommend_simple call in progress: its
\*                     position between its queries and its local variables
\*   temp_folder       the files (name, content) of current_user.temp_folder()
\*   persisted         per table, the number of rows that are committed
\*   outside           the paths of the files outside the temp folder
VARIABLES datasets, view_records, download_records, response, last_call, now,
          calls, temp_folder, persisted, outside

\* the state that the handlers of the recommendations leave alone
side == <<now, calls, temp_folder, persisted, outside>>

vars == <<datasets, view_records, download_records, response, last_call, side>>

\* count of the rows of a record table with the given dataset_id
count_by_dataset(table, dataset_id) ==
    LET rows == {r \in DOMAIN table : r.dataset_id = dataset_id}
    IN BagCardinality([r \in rows |-> table[r]])

\* ------------------------------------------------------ similarity scores
diagram_similarity(ds1, ds2) ==
    IF ds1.diagram_type = ds2.diagram_type THEN 1 ELSE 0

tag_similarity(ds1, ds2) ==
    LET tags1 == tag_set(ds1.tags)
        tags2 == tag_set(ds2.tags)
    IN IF tags1.exc # "" THEN Raise(tags1.exc)
       ELSE IF tags2.exc # "" THEN Raise(tags2.exc)
       ELSE Ok(Cardinality(tags1.val \cap tags2.val))

author_similarity(ds1, ds2) ==
    LET a1 == SeqToSet(ds1.authors)
        a2 == SeqToSet(ds2.authors)
    IN Cardinality(a1 \cap a2)

get_popularity(dataset_id) ==
    LET views == count_by_dataset(view_records, dataset_id)
        downloads == count_by_dataset(download_records, dataset_id)
    IN views + downloads

\* popularity_list, in the order of the pool
popularity_list(pool) == [i \in 1..Len(pool) |-> get_popularity(pool[i].id)]

RECURSIVE seq_max(_)
seq_max(s) ==
    IF Len(s) = 1 THEN s[1]
    ELSE LET m == seq_max(Tail(s)) IN IF s[1] >= m THEN s[1] ELSE m

\* max(list): ValueError on the empty list
py_max(s) == IF s = <<>> THEN Raise("ValueError") ELSE Ok(seq_max(s))

\* (mutant) max(popularity_list), without `or 1`
max_popularity_no_floor(pops) == py_max(pops)

\* max(popularity_list) or 1
max_popularity(pops) ==
    LET m == py_max(pops)
    IN IF m.exc # "" THEN m ELSE Ok(IF m.val = 0 THEN 1 ELSE m.val)

\* (mutant) 0.5 * pop: the count is not divided by max_popularity
popularity_score_unnormalised(pop, max_pop) == Ok([num |-> pop, den |-> 2])

\* 0.5 * (pop / max_popularity), as a fraction; ZeroDivisionError on 0
popularity_score(pop, max_pop) ==
    IF max_pop = 0 THEN Raise("ZeroDivisionError")
    ELSE Ok([num |-> pop, den |-> 2 * max_pop])

\* (mutant) diag_sim + tag_sim + author_sim + popularity_score: the weight 3
\* of the diagram type is missing
score_unweighted(target, ds, pop, max_pop) ==
    LET diag_sim == diagram_similarity(target, ds)
        tag_sim == tag_similarity(target, ds)
        author_sim == author_similarity(target, ds)
        pscore == popularity_score(pop, max_pop)
    IN IF tag_sim.exc # "" THEN Raise(tag_sim.exc)
       ELSE IF pscore.exc # "" THEN Raise(pscore.exc)
       ELSE Ok([num |-> (diag_sim + tag_sim.val + author_sim) * pscore.val.den
                        + pscore.val.num,
                den |-> pscore.val.den])

\* 3 * diag_sim + 1 * tag_sim + 1 * author_sim + popularity_score
score(target, ds, pop, max_pop) ==
    LET diag_sim == diagram_similarity(target, ds)
        tag_sim == tag_similarity(target, ds)
        author_sim == author_similarity(target, ds)
        pscore == popularity_score(pop, max_pop)
    IN IF tag_sim.exc # "" THEN Raise(tag_sim.exc)
       ELSE IF pscore.exc # "" THEN Raise(pscore.exc)
       ELSE Ok([num |-> (3 * diag_sim + tag_sim.val + author_sim) * pscore.val.den
                        + pscore.val.num,
                den |-> pscore.val.den])

\* next((ds for ds in datasets if ds.id == dataset_id), None), as an index
find_target(pool, dataset_id) ==
    LET hits == {i \in 1..Len(pool) : pool[i].id = dataset_id}
    IN IF hits = {} THEN None ELSE CHOOSE i \in hits : \A j \in hits : i <= j

\* (mutant) the loop without `if ds.id == dataset_id: continue`
is_candidate_no_skip(ds, dataset_id) == TRUE

\* `if ds.id == dataset_id: continue`
is_candidate(ds, dataset_id) == ds.id # dataset_id

\* comparison of two sort keys (fractions with positive denominators)
key_lt(a, b) == a.score.num * b.score.den < b.score.num * a.score.den

\* one step of the stable descending sort: x goes behind every entry whose
\* key is not smaller than its own
RECURSIVE sort_insert(_, _)
sort_insert(sorted, x) ==
    IF sorted = <<>> THEN <<x>>
    ELSE IF key_lt(Head(sorted), x) THEN <<x>> \o sorted
    ELSE <<Head(sorted)>> \o sort_insert(Tail(sorted), x)

RECURSIVE sort_from(_, _, _)
sort_from(results, i, sorted) ==
    IF i > Len(results) THEN sorted
    ELSE sort_from(results, i + 1, sort_insert(sorted, results[i]))

RECURSIVE reverse_seq(_)
reverse_seq(s) == IF s = <<>> THEN <<>> ELSE Append(reverse_seq(Tail(s)), Head(s))

\* (mutant) results.sort(key=lambda x: x[1]): reverse=True forgotten; the
\* ascending stable sort is the reversal of the descending sort of the
\* reversed list
sort_ascending(results) == reverse_seq(sort_from(reverse_seq(results), 1, <<>>))

\* (mutant) sorted(results, key=...)[::-1]: descending, but equal keys come
\* out in reverse pool order
sort_then_reversed(results) == reverse_seq(sort_ascending(results))

\* results.sort(key=lambda x: x[1], reverse=True): stable, descending
sort_reverse(results) == sort_from(results, 1, <<>>)

\* (mutant) `return [ds for ds, s in results]`: the cut at top_n forgotten
slice_all(results, top_n) == results

\* results[:top_n]
slice_to(results, top_n) ==
    LET n == Len(results)
        stop == IF top_n >= 0
                THEN (IF top_n < n THEN top_n ELSE n)
                ELSE (IF n + top_n > 0 THEN n + top_n ELSE 0)
    IN SubSeq(results, 1, stop)

\* the loop `for ds, pop in zip(datasets, popularity_list)`: the (ds, score)
\* pairs in pool order, or the first exception
RECURSIVE score_loop(_, _, _, _, _, _)
score_loop(pool, pops, target, dataset_id, max_pop, i) ==
    IF i > Len(pool) THEN Ok(<<>>)
    ELSE IF ~is_candidate(pool[i], dataset_id)
         THEN score_loop(pool, pops, target, dataset_id, max_pop, i + 1)
         ELSE LET s == score(target, pool[i], pops[i], max_pop)
                  rest == score_loop(pool, pops, target, dataset_id, max_pop, i + 1)
              IN IF s.exc # "" THEN Raise(s.exc)
                 ELSE IF rest.exc # "" THEN rest
                 ELSE Ok(<<[id |-> pool[i].id, score |-> s.val]>> \o rest.val)

\* (mutant) recommend_simple without `if not target: return []`: max() of an
\* empty pool raises ValueError, target.ds_meta_data raises AttributeError
target_not_found_unguarded(pool) ==
    IF pool = <<>> THEN Raise("ValueError") ELSE Raise("AttributeError")

\* `if not target: return []`
target_not_found(pool) == Ok([results |-> <<>>, result |-> <<>>])

\* recommend_simple after its queries: the ranking of the pool that
\* `datasets` holds, on the counts that popularity_list holds
rank_pool(pool, pops, dataset_id, top_n) ==
    LET t == find_target(pool, dataset_id)
        max_pop == max_popularity(pops)
    IN IF max_pop.exc # "" THEN Raise(max_pop.exc)
       ELSE LET scored == score_loop(pool, pops, pool[t], dataset_id,
                                     max_pop.val, 1)
            IN IF scored.exc # "" THEN Raise(scored.exc)
               ELSE LET results == sort_reverse(scored.val)
                        top == slice_to(results, top_n)
                    IN Ok([results |-> results,
                           result |-> [i \in 1..Len(top) |-> top[i].id]])

\* DataSetService.recommend_simple: Ok of the sorted (id, score) list and of
\* the returned ids, or the exception that escapes
recommend_simple(dataset_id, top_n) ==
    LET pool == datasets
        t == find_target(pool, dataset_id)
    IN IF t = None THEN target_not_found(pool)
       ELSE rank_pool(pool, popularity_list(pool), dataset_id, top_n)

\* ------------------------------------------------------- request inputs
\* the callers (threads or worker processes) that may run recommend_simple
\* at the same time
Callers == {"c1", "c2"}
Idle == [pc |-> "idle"]
\* current_user of a request: anonymous (None)
RequestUsers == {None}
\* the view_cookie / download_cookie of a request: absent, or a cookie the
\* client kept from an earlier response
ClientCookie == 1
RequestCookies == {None, ClientCookie}
\* the cookie of the records that exist at start-up
SeedCookie == 2
\* top_n of a direct call; the page handler passes 3
MaxTopN == 3
TopNs == 1..MaxTopN

FLOWCHART == "FLOWCHART"
SEQUENCE_DIAGRAM == "SEQUENCE_DIAGRAM"

\* DOIs are named by a number: None is NULL, n > 0 is "10.5281/fakenodo.n"
fakenodo_doi(deposition_id) == deposition_id
OldDoi == 99

\* DOIMapping rows (no handler inserts or deletes them)
doi_mapping == {[dataset_doi_old |-> OldDoi, dataset_doi_new |-> fakenodo_doi(1)]}

\* the DataSetForm posts of the model: diagram type, tags, authors
UploadForms ==
    { [diagram_type |-> FLOWCHART, tags |-> <<"a", ",", "b">>,
       authors |-> <<>>, dataset_doi |-> None, is_draft |-> FALSE],
      [diagram_type |-> FLOWCHART, tags |-> NoneStr,
       authors |-> <<"X">>, dataset_doi |-> None, is_draft |-> FALSE],
      [diagram_type |-> SEQUENCE_DIAGRAM, tags |-> <<"b", " ", "a", "b">>,
       authors |-> <<"X">>, dataset_doi |-> None, is_draft |-> TRUE],
      [diagram_type |-> SEQUENCE_DIAGRAM, tags |-> <<>>,
       authors |-> <<>>, dataset_doi |-> None, is_draft |-> FALSE] }

\* f"{surname}, {name}" of the profile of a user
main_author(user_id) == IF user_id = 1 THEN "Doe, Jane" ELSE "Roe, Rick"

\* the tables that create_from_form writes
Tables == {"DSMetaData", "Author", "DataSet", "MDMetaData", "MermaidDiagram",
           "Hubfile"}
NoRows == [t \in Tables |-> 0]

\* the rows behind a pool of datasets, each with one diagram of one file
RECURSIVE count_authors(_, _)
count_authors(pool, i) ==
    IF i > Len(pool) THEN 0
    ELSE Len(pool[i].authors) + count_authors(pool, i + 1)
seed_rows(pool) ==
    [t \in Tables |-> IF t = "Author" THEN count_authors(pool, 1) ELSE Len(pool)]

\* files that exist outside the temp folder of the user, each as the
\* components of its absolute path: /etc/passwd and a file of user 2
outside_files ==
    { <<<<"e", "t", "c">>, <<"p", "a", "s", "s", "w", "d">>>>,
      <<<<"u", "p", "l", "o", "a", "d", "s">>, <<"t", "e", "m", "p">>, <<"2">>, <<"b", ".", "m", "m", "d">>>> }

\* db.session: the committed rows, the rows added and not yet committed, and
\* the commits and rollbacks in the order of their calls
Session(rows) == [persisted |-> rows, pending |-> NoRows, events |-> <<>>]

session_add(session, table) ==
    [session EXCEPT !.pending[table] = @ + 1]

session_commit(session, caller) ==
    [session EXCEPT
        !.persisted = [t \in Tables |-> session.persisted[t] + session.pending[t]],
        !.pending = NoRows,
        !.events = Append(@, [call |-> "commit", by |-> caller])]

\* (mutant) an except block that does not roll back
session_rollback_skipped(session, caller) == session

session_rollback(session, caller) ==
    [session EXCEPT
        !.pending = NoRows,
        !.events = Append(@, [call |-> "rollback", by |-> caller])]

\* BaseRepository.create(commit=True, **kwargs): the row is added to the
\* session, which is committed unless the caller passes commit=False
create(session, table, commit) ==
    IF commit THEN session_commit(session_add(session, table), "create")
    ELSE session_add(session, table)

\* a DataSet row joined with its DSMetaData row and the names of its authors
Row(id, user_id, diagram_type, tags, authors, dataset_doi, is_draft) ==
    [id |-> id, user_id |-> user_id, diagram_type |-> diagram_type,
     tags |-> tags, authors |-> authors, dataset_doi |-> dataset_doi,
     is_draft |-> is_draft, deposition_id |-> None]

\* ---------------------------------------------------------- start states
\* the pool of test_recommendation_limit_n: target 1 and five identical
\* candidates 2..6 (FLOWCHART, tags "tagA", no authors, no records)
TagA == <<"t", "a", "g", "A">>
limit_n_pool ==
    [i \in 1..6 |-> Row(i, 1, FLOWCHART, TagA, <<>>, fakenodo_doi(i), FALSE)]

\* a pool whose candidates 2, 3, 4 have popularity 100, 50 and 0
popularity_pool ==
    << Row(1, 1, FLOWCHART, <<"a", ",", " ", "b">>, <<"X", "Y">>, fakenodo_doi(1), FALSE),
       Row(2, 2, SEQUENCE_DIAGRAM, <<"a", "b", " ", "a">>, <<"Z">>, fakenodo_doi(2), FALSE),
       Row(3, 2, FLOWCHART, NoneStr, <<>>, fakenodo_doi(3), FALSE),
       Row(4, 1, FLOWCHART, <<"b", ",", "a">>, <<"Y", "X", "X">>, fakenodo_doi(4), FALSE) >>
popularity_downloads ==
    [r \in {[user_id |-> None, dataset_id |-> 2, cookie |-> SeedCookie,
             download_date |-> 0],
            [user_id |-> None, dataset_id |-> 3, cookie |-> SeedCookie,
             download_date |-> 0]}
       |-> IF r.dataset_id = 3 THEN 50 ELSE 100]

StartStates ==
    { [datasets |-> <<>>, downloads |-> EmptyBag],
      [datasets |-> limit_n_pool, downloads |-> EmptyBag],
      [datasets |-> popularity_pool, downloads |-> popularity_downloads] }

NoResponse == [op |-> "none"]

Init ==
    /\ \E s \in StartStates :
          /\ datasets = s.datasets
          /\ download_records = s.downloads
    /\ view_records = EmptyBag
    /\ response = NoResponse
    /\ last_call = NoResponse
    /\ now = 0
    /\ calls = [c \in Callers |-> Idle]
    /\ temp_folder = {}
    /\ persisted = seed_rows(datasets)
    /\ outside = outside_files

\* ------------------------------------------------------------- helpers
\* rows of a record table that the requests of a run created
created(table) ==
    LET rows == {r \in DOMAIN table : r.cookie # SeedCookie}
    IN BagCardinality([r \in rows |-> table[r]])

records_created == created(view_records) + created(download_records)

SetMax(S) == CHOOSE m \in S : \A x \in S : x <= m

\* str(uuid.uuid4()): a cookie value that no record and no client holds
uuid4 ==
    1 + SetMax({ClientCookie, SeedCookie}
               \cup {r.cookie : r \in DOMAIN view_records}
               \cup {r.cookie : r \in DOMAIN download_records})

\* (mutant) a lookup that finds no mapping
get_new_doi_unmapped(old_doi) == None

\* DOIMappingService.get_new_doi
get_new_doi(old_doi) ==
    LET rows == {m \in doi_mapping : m.dataset_doi_old = old_doi}
    IN IF rows = {} THEN None ELSE (CHOOSE m \in rows : TRUE).dataset_doi_new

\* DSMetaDataRepository.filter_by_doi(...).data_set, as an index of datasets
filter_by_doi(doi) ==
    LET hits == {i \in 1..Len(datasets) : datasets[i].dataset_doi = doi}
    IN IF hits = {} THEN None ELSE CHOOSE i \in hits : \A j \in hits : i <= j

\* (mutant) the_record_exists without view_cookie=user_cookie in the filter
the_record_exists_any_cookie(user_id, dataset_id, user_cookie) ==
    \E r \in DOMAIN view_records : r.user_id = user_id /\ r.dataset_id = dataset_id

\* DSViewRecordRepository.the_record_exists
the_record_exists(user_id, dataset_id, user_cookie) ==
    [user_id |-> user_id, dataset_id |-> dataset_id, cookie |-> user_cookie]
        \in DOMAIN view_records

\* BaseRepository.create on a record table
insert(table, user_id, dataset_id, cookie) ==
    table (+) SetToBag({[user_id |-> user_id, dataset_id |-> dataset_id,
                         cookie |-> cookie]})

\* DSDownloadRecordService().create(..., download_date=datetime.now(...))
insert_download(table, user_id, dataset_id, cookie) ==
    table (+) SetToBag({[user_id |-> user_id, dataset_id |-> dataset_id,
                         cookie |-> cookie, download_date |-> now]})

\* ---------------------------------------------------------------------
\* Trending datasets: TrendingDatasetsRepository, TrendingDatasetsService and
\* GET /datasets/trending.

\* period_days=None (all time), and a query argument that the request lacks
NoPeriod == -1
NoArg == -1

Week == <<"w", "e", "e", "k">>
Month == <<"m", "o", "n", "t", "h">>

\* str.lower() on ASCII letters
UpperCase == <<"A", "B", "C", "D", "E", "F", "G", "H", "I", "J", "K", "L", "M",
               "N", "O", "P", "Q", "R", "S", "T", "U", "V", "W", "X", "Y", "Z">>
LowerCase == <<"a", "b", "c", "d", "e", "f", "g", "h", "i", "j", "k", "l", "m",
               "n", "o", "p", "q", "r", "s", "t", "u", "v", "w", "x", "y", "z">>
lower_char(ch) ==
    IF \E k \in DOMAIN UpperCase : UpperCase[k] = ch
    THEN LowerCase[CHOOSE k \in DOMAIN UpperCase : UpperCase[k] = ch]
    ELSE ch
lower(str) == [k \in DOMAIN str |-> lower_char(str[k])]

\* (mutant) a period mapping that takes a week for every unknown period
get_period_days_default_week(period) ==
    IF period = Month THEN Ok(30) ELSE Ok(7)

\* TrendingDatasetsService._get_period_days
get_period_days(period) ==
    IF period = Week THEN Ok(7)
    ELSE IF period = Month THEN Ok(30)
    ELSE Raise("ValueError")

\* (mutant) the period filter is never applied
in_period_unfiltered(record, period_days) == TRUE

\* `if period_days is not None: ... download_date >= start_date`
in_period(record, period_days) ==
    \/ period_days = NoPeriod
    \/ record.download_date >= now - period_days

\* func.count(DSDownloadRecord.id) of the group of a dataset
group_count(dataset_id, period_days) ==
    LET rows == {r \in DOMAIN download_records :
                    r.dataset_id = dataset_id /\ in_period(r, period_days)}
    IN BagCardinality([r \in rows |-> download_records[r]])

\* (mutant) the join without .filter(DSMetaData.dataset_doi.isnot(None))
is_synchronized_unfiltered(ds) == TRUE

\* .filter(DSMetaData.dataset_doi.isnot(None))
is_synchronized(ds) == ds.dataset_doi # None

\* the groups of the inner joins: one per dataset with a DOI and at least
\* one download record in the period
download_groups(period_days) ==
    {[id |-> datasets[i].id,
      download_count |-> group_count(datasets[i].id, period_days)] :
        i \in {j \in 1..Len(datasets) :
                  /\ is_synchronized(datasets[j])
                  /\ group_count(datasets[j].id, period_days) > 0}}

\* (mutant) .order_by("download_count"): ascending
order_by_asc(groups) ==
    {rows \in [1..Cardinality(groups) -> groups] :
        /\ \A i, j \in DOMAIN rows : i # j => rows[i] # rows[j]
        /\ \A i, j \in DOMAIN rows :
              i < j => rows[i].download_count <= rows[j].download_count}

\* .order_by(desc("download_count")): every order of the groups that the
\* database may produce; the order of equal counts is not specified
order_by_desc(groups) ==
    {rows \in [1..Cardinality(groups) -> groups] :
        /\ \A i, j \in DOMAIN rows : i # j => rows[i] # rows[j]
        /\ \A i, j \in DOMAIN rows :
              i < j => rows[i].download_count >= rows[j].download_count}

\* .limit(limit), for limit >= 0
limit_rows(rows, limit) ==
    SubSeq(rows, 1, IF limit < Len(rows) THEN limit ELSE Len(rows))

\* TrendingDatasetsRepository.get_top_downloaded_datasets: the results that
\* the query may return
get_top_downloaded_datasets(limit, period_days) ==
    {limit_rows(rows, limit) : rows \in order_by_desc(download_groups(period_days))}

\* (mutant) the route without `if limit > 100`
limit_error_no_maximum(limit) == IF limit < 1 THEN "Limit must be at least 1" ELSE ""

\* `if limit < 1` and `if limit > 100` of the route
limit_error(limit) ==
    IF limit < 1 THEN "Limit must be at least 1"
    ELSE IF limit > 100 THEN "Limit cannot exceed 100"
    ELSE ""

\* ---------------------------------------------------------------------
\* File uploads: POST /dataset/file/upload and /dataset/file/upload_github.
\* A file name and a file content are str values (sequences of characters).

\* str.endswith(suffix)
endswith(str, suffix) ==
    /\ Len(str) >= Len(suffix)
    /\ SubSeq(str, Len(str) - Len(suffix) + 1, Len(str)) = suffix

\* (mutant) str.startswith(prefix) without re.I: the case is compared
starts_with_keyword_case(str, prefix) ==
    /\ Len(str) >= Len(prefix)
    /\ SubSeq(str, 1, Len(prefix)) = prefix

\* the prefix test of a pattern compiled with re.I
starts_with_keyword(str, prefix) ==
    /\ Len(str) >= Len(prefix)
    /\ lower(SubSeq(str, 1, Len(prefix))) = lower(prefix)

\* os.path.basename: what follows the last "/"
basename(path) ==
    LET seps == {i \in DOMAIN path : path[i] = "/"}
    IN IF seps = {} THEN path
       ELSE SubSeq(path, SetMax(seps) + 1, Len(path))

\* os.path.splitext: the extension starts at the last dot of the last path
\* component, unless only dots precede it there
splitext(path) ==
    LET seps == {i \in DOMAIN path : path[i] = "/"}
        start == IF seps = {} THEN 1 ELSE SetMax(seps) + 1
        dots == {i \in start..Len(path) :
                    /\ path[i] = "."
                    /\ \E j \in start..(i - 1) : path[j] # "."}
    IN IF dots = {} THEN <<path, <<>>>>
       ELSE <<SubSeq(path, 1, SetMax(dots) - 1),
              SubSeq(path, SetMax(dots), Len(path))>>

\* str(i) of a natural number
Digits == <<"0", "1", "2", "3", "4", "5", "6", "7", "8", "9">>
RECURSIVE str_of_int(_)
str_of_int(i) ==
    IF i < 10 THEN <<Digits[i + 1]>>
    ELSE str_of_int(i \div 10) \o <<Digits[(i % 10) + 1]>>

\* f"{base_name} ({i}){extension}"
numbered_name(base_name, i, extension) ==
    base_name \o <<" ", "(">> \o str_of_int(i) \o <<")">> \o extension

\* the names of the files of a folder
names_of(folder) == {f.name : f \in folder}

\* `i = 1; while os.path.exists(...): i += 1`
RECURSIVE first_free_index(_, _, _, _)
first_free_index(folder, base_name, extension, i) ==
    IF numbered_name(base_name, i, extension) \in names_of(folder)
    THEN first_free_index(folder, base_name, extension, i + 1)
    ELSE i

\* (mutant) the name under which a file is stored, without the test of
\* os.path.exists
new_filename_unchecked(folder, filename) == filename

\* the name under which a file is stored: filename, or "base (i).ext" when
\* a file of that name exists
new_filename(folder, filename) ==
    IF filename \in names_of(folder)
    THEN LET parts == splitext(filename)
         IN numbered_name(parts[1],
                          first_free_index(folder, parts[1], parts[2], 1),
                          parts[2])
    ELSE filename

\* file.save(file_path) / open(file_path, "w").write(content): the file of
\* that name is created or replaced
save(folder, name, content) ==
    {f \in folder : f.name # name} \cup {[name |-> name, content |-> content]}

\* (mutant) the rejected upload is left in the folder
remove_nothing(folder, name) == folder

\* os.remove(file_path)
remove(folder, name) == {f \in folder : f.name # name}

\* str.splitlines() on "\n"
RECURSIVE splitlines_from(_, _, _)
splitlines_from(str, i, line) ==
    IF i > Len(str)
    THEN IF line = <<>> THEN <<>> ELSE <<line>>
    ELSE IF str[i] = "\n"
         THEN <<line>> \o splitlines_from(str, i + 1, <<>>)
         ELSE splitlines_from(str, i + 1, Append(line, str[i]))
splitlines(str) == splitlines_from(str, 1, <<>>)

\* str.strip()
Whitespace == {" ", "\t"}
RECURSIVE lstrip(_)
lstrip(str) ==
    IF str # <<>> /\ Head(str) \in Whitespace THEN lstrip(Tail(str)) ELSE str
RECURSIVE rstrip(_)
rstrip(str) ==
    IF str # <<>> /\ str[Len(str)] \in Whitespace
    THEN rstrip(SubSeq(str, 1, Len(str) - 1))
    ELSE str
strip(str) == lstrip(rstrip(str))

keywords ==
    { <<"g", "r", "a", "p", "h">>,
      <<"f", "l", "o", "w", "c", "h", "a", "r", "t">>,
      <<"s", "e", "q", "u", "e", "n", "c", "e", "D", "i", "a", "g", "r", "a", "m">>,
      <<"c", "l", "a", "s", "s", "D", "i", "a", "g", "r", "a", "m">>,
      <<"s", "t", "a", "t", "e", "D", "i", "a", "g", "r", "a", "m">>,
      <<"p", "i", "e">>,
      <<"g", "a", "n", "t", "t">>,
      <<"e", "r", "D", "i", "a", "g", "r", "a", "m">>,
      <<"j", "o", "u", "r", "n", "e", "y">>,
      <<"g", "i", "t", "G", "r", "a", "p", "h">>,
      <<"g", "i", "t", "g", "r", "a", "p", "h">>,
      <<"c", "4">>,
      <<"m", "i", "n", "d", "m", "a", "p">>,
      <<"t", "i", "m", "e", "l", "i", "n", "e">>,
      <<"s", "a", "n", "k", "e", "y">>,
      <<"r", "a", "d", "a", "r">> }

\* \w
is_word_char(ch) ==
    \/ \E k \in DOMAIN UpperCase : ch = UpperCase[k] \/ ch = LowerCase[k]
    \/ \E k \in DOMAIN Digits : ch = Digits[k]
    \/ ch = "_"

\* keywords_re.match(str): ^(?:graph|flowchart|...)\b with re.I
keywords_re_match(str) ==
    \E kw \in keywords :
        /\ starts_with_keyword(str, kw)
        /\ Len(str) > Len(kw) => ~is_word_char(str[Len(kw) + 1])

\* the loop over content.splitlines() that collects the blocks, each block
\* as the list of its lines
RECURSIVE collect_blocks(_, _, _, _)
collect_blocks(lines, i, blocks, current) ==
    IF i > Len(lines)
    THEN IF current # <<>> THEN Append(blocks, current) ELSE blocks
    ELSE IF keywords_re_match(strip(lines[i]))
         THEN collect_blocks(lines, i + 1,
                             IF current # <<>> THEN Append(blocks, current)
                             ELSE blocks,
                             <<lines[i]>>)
         ELSE collect_blocks(lines, i + 1, blocks,
                             IF current # <<>> THEN Append(current, lines[i])
                             ELSE current)

mermaid_blocks(content) == collect_blocks(splitlines(content), 1, <<>>, <<>>)

\* ---------------------------------------------------- creating a dataset
\* form.mermaid_diagrams of the posts of the model: one diagram, a.mmd, with
\* no author of its own
mermaid_diagrams(form) ==
    << [mmd_filename |-> <<"a", ".", "m", "m", "d">>, authors |-> <<>>] >>

\* one create of create_from_form: the stage it belongs to, the table, and
\* whether the call leaves commit at its default
Step(stage, table, commit) ==
    [stage |-> stage, table |-> table, commit |-> commit]

\* the body of `for mermaid_diagram in form.mermaid_diagrams`
diagram_steps(mermaid_diagram) ==
    <<Step("diagrams", "MDMetaData", FALSE)>>
    \o [k \in 1..Len(mermaid_diagram.authors) |-> Step("diagrams", "Author", FALSE)]
    \o << Step("diagrams", "MermaidDiagram", FALSE),
          Step("checksum", "", FALSE),
          Step("hubfile", "Hubfile", FALSE) >>

RECURSIVE all_diagram_steps(_, _)
all_diagram_steps(diagrams, i) ==
    IF i > Len(diagrams) THEN <<>>
    ELSE diagram_steps(diagrams[i]) \o all_diagram_steps(diagrams, i + 1)

\* the statements of the try block of create_from_form, in order
form_steps(form) ==
    <<Step("metadata", "DSMetaData", TRUE)>>
    \o [k \in 1..(1 + Len(form.authors)) |-> Step("authors", "Author", FALSE)]
    \o <<Step("dataset", "DataSet", FALSE)>>
    \o all_diagram_steps(mermaid_diagrams(form), 1)

\* the try block from statement i on; fail names the stage whose first
\* statement raises ("" when none does)
RECURSIVE run_steps(_, _, _, _)
run_steps(steps, i, session, fail) ==
    IF i > Len(steps)
    THEN [session |-> session_commit(session, "create_from_form"), exc |-> ""]
    ELSE IF steps[i].stage = fail
    THEN [session |-> session_rollback(session, "create_from_form"),
          exc |-> fail]
    ELSE run_steps(steps, i + 1,
                   IF steps[i].table = "" THEN session
                   ELSE create(session, steps[i].table, steps[i].commit),
                   fail)

\* DataSetService.create_from_form: the session after the call and the
\* exception that the call raises ("" when it returns the dataset)
create_from_form(rows, form, fail) ==
    run_steps(form_steps(form), 1, Session(rows), fail)

\* the stages of create_from_form that can raise
FormFailures ==
    {"metadata", "authors", "dataset", "diagrams", "checksum", "hubfile"}

\* ------------------------------------------------------ deleting a file
\* current_user.temp_folder() of user 1
temp_folder_path == <<"/", "u", "p", "l", "o", "a", "d", "s", "/", "t", "e", "m", "p", "/", "1">>

\* os.path.join(a, b): b alone when it is absolute
join(a, b) ==
    IF b # <<>> /\ Head(b) = "/" THEN b
    ELSE IF a # <<>> /\ a[Len(a)] = "/" THEN a \o b
    ELSE a \o <<"/">> \o b

\* the components of a path between its "/"
RECURSIVE components_from(_, _, _)
components_from(path, i, part) ==
    IF i > Len(path)
    THEN IF part = <<>> THEN <<>> ELSE <<part>>
    ELSE IF path[i] = "/"
         THEN (IF part = <<>> THEN <<>> ELSE <<part>>)
              \o components_from(path, i + 1, <<>>)
         ELSE components_from(path, i + 1, Append(part, path[i]))

\* the file that the system opens for an absolute path: "." stays, ".."
\* goes up, the root is its own parent
RECURSIVE resolve_from(_, _, _)
resolve_from(parts, i, done) ==
    IF i > Len(parts) THEN done
    ELSE IF parts[i] = <<".">> THEN resolve_from(parts, i + 1, done)
    ELSE IF parts[i] = <<".", ".">>
    THEN resolve_from(parts, i + 1,
                      IF done = <<>> THEN done
                      ELSE SubSeq(done, 1, Len(done) - 1))
    ELSE resolve_from(parts, i + 1, Append(done, parts[i]))
resolve(path) == resolve_from(components_from(path, 1, <<>>), 1, <<>>)

\* the name of a resolved path inside the temp folder, <<>> for a path that
\* is not a file of that folder
name_in_temp_folder(target) ==
    LET folder == resolve(temp_folder_path)
    IN IF /\ Len(target) = Len(folder) + 1
          /\ SubSeq(target, 1, Len(folder)) = folder
       THEN target[Len(target)]
       ELSE <<>>

\* ------------------------------------------------------------- actions
\* (mutant) a recommend_simple that also counts the call as a view of the
\* target
RecommendSimple_counting_view(dataset_id, top_n) ==
    /\ response = NoResponse
    /\ LET r == recommend_simple(dataset_id, top_n)
       IN response' = [op |-> "recommend_simple",
                       dataset_id |-> dataset_id,
                       top_n |-> top_n,
                       exc |-> r.exc,
                       results |-> IF r.exc = "" THEN r.val.results ELSE <<>>,
                       result |-> IF r.exc = "" THEN r.val.result ELSE <<>>]
    /\ view_records' = insert(view_records, None, dataset_id, ClientCookie)
    /\ UNCHANGED <<datasets, download_records, last_call>>
    /\ UNCHANGED side

\* a direct call of DataSetService.recommend_simple(dataset_id, top_n)
RecommendSimple(dataset_id, top_n) ==
    /\ response = NoResponse
    /\ LET r == recommend_simple(dataset_id, top_n)
       IN response' = [op |-> "recommend_simple",
                       dataset_id |-> dataset_id,
                       top_n |-> top_n,
                       exc |-> r.exc,
                       results |-> IF r.exc = "" THEN r.val.results ELSE <<>>,
                       result |-> IF r.exc = "" THEN r.val.result ELSE <<>>]
    /\ UNCHANGED <<datasets, view_records, download_records, last_call>>
    /\ UNCHANGED side

\* GET /doi/<doi>/
subdomain_index(doi, user_id, view_cookie) ==
    /\ response = NoResponse
    /\ LET new_doi == get_new_doi(doi)
           d == filter_by_doi(doi)
       IN IF new_doi # None
          THEN /\ response' = [op |-> "subdomain_index", status |-> 302,
                               doi |-> doi, location |-> new_doi]
               /\ UNCHANGED view_records
          ELSE IF d = None
          THEN /\ response' = [op |-> "subdomain_index", status |-> 404,
                               doi |-> doi]
               /\ UNCHANGED view_records
          ELSE LET dataset == datasets[d]
                   recommended == recommend_simple(dataset.id, 3)
                   user_cookie == IF view_cookie = None THEN uuid4 ELSE view_cookie
                   existing_record == the_record_exists(user_id, dataset.id, user_cookie)
               IN IF recommended.exc # ""
                  THEN /\ response' = [op |-> "subdomain_index", status |-> 500,
                                       doi |-> doi, exc |-> recommended.exc]
                       /\ UNCHANGED view_records
                  ELSE /\ existing_record \/ records_created < MaxRecords
                       /\ view_records' =
                            IF existing_record THEN view_records
                            ELSE insert(view_records, user_id, dataset.id, user_cookie)
                       /\ response' = [op |-> "subdomain_index", status |-> 200,
                                       doi |-> doi,
                                       dataset_id |-> dataset.id,
                                       recommended |-> recommended.val.result,
                                       context |-> {"dataset", "form"},
                                       user_id |-> user_id,
                                       cookie_arg |-> view_cookie,
                                       existing_record |-> existing_record,
                                       view_cookie |-> user_cookie]
    /\ UNCHANGED <<datasets, download_records, last_call>>
    /\ UNCHANGED side

\* (mutant) a download that is registered only for a client without a
\* download_cookie, as if a client with a cookie had been counted before
download_dataset_first_visit_only(dataset_id, user_id, download_cookie) ==
    /\ response = NoResponse
    /\ IF find_target(datasets, dataset_id) = None
       THEN /\ response' = [op |-> "download_dataset", status |-> 404]
            /\ UNCHANGED download_records
       ELSE LET user_cookie == IF download_cookie = None THEN uuid4
                               ELSE download_cookie
            IN /\ download_cookie # None \/ records_created < MaxRecords
               /\ download_records' =
                    IF download_cookie # None THEN download_records
                    ELSE insert_download(download_records, user_id, dataset_id,
                                         user_cookie)
               /\ response' = [op |-> "download_dataset", status |-> 200,
                               dataset_id |-> dataset_id,
                               cookie_arg |-> download_cookie,
                               download_cookie |-> user_cookie]
    /\ UNCHANGED <<datasets, view_records, last_call>>
    /\ UNCHANGED side

\* GET /dataset/download/<dataset_id>
download_dataset(dataset_id, user_id, download_cookie) ==
    /\ response = NoResponse
    /\ IF find_target(datasets, dataset_id) = None
       THEN /\ response' = [op |-> "download_dataset", status |-> 404]
            /\ UNCHANGED download_records
       ELSE LET user_cookie == IF download_cookie = None THEN uuid4
                               ELSE download_cookie
            IN /\ records_created < MaxRecords
               /\ download_records' =
                    insert_download(download_records, user_id, dataset_id,
                                    user_cookie)
               /\ response' = [op |-> "download_dataset", status |-> 200,
                               dataset_id |-> dataset_id,
                               cookie_arg |-> download_cookie,
                               download_cookie |-> user_cookie]
    /\ UNCHANGED <<datasets, view_records, last_call>>
    /\ UNCHANGED side

\* how far the deposition of a dataset gets
PublishOutcomes == {"deposition_error", "no_conceptrecid", "publish_error", "ok"}

\* the ways a POST /dataset/upload can go: the form is invalid, a stage of
\* create_from_form raises, or the dataset is created and its deposition
\* gets as far as the outcome tells
CreateOutcomes == {"invalid_form"} \cup FormFailures \cup PublishOutcomes

MaxFailedUploads == 1

\* POST /dataset/upload by a logged-in user
create_dataset(user_id, form, outcome) ==
    /\ response = NoResponse
    /\ IF outcome = "invalid_form"
       THEN /\ response' = [op |-> "create_dataset", status |-> 400,
                            dataset_id |-> None, outcome |-> outcome,
                            exc |-> "", events |-> <<>>]
            /\ UNCHANGED <<datasets, persisted, temp_folder>>
       ELSE IF outcome \in FormFailures
       THEN LET made == create_from_form(persisted, form, outcome)
            IN /\ made.session.persisted["DSMetaData"]
                     <= Len(datasets) + MaxFailedUploads
               /\ persisted' = made.session.persisted
               /\ response' = [op |-> "create_dataset", status |-> 400,
                               dataset_id |-> None, outcome |-> outcome,
                               exc |-> made.exc,
                               events |-> made.session.events]
               /\ UNCHANGED <<datasets, temp_folder>>
       ELSE LET id == Len(datasets) + 1
                made == create_from_form(persisted, form, "")
                should_publish == ~form.is_draft
                moved == {d.mmd_filename :
                            d \in SeqToSet(mermaid_diagrams(form))}
                row == Row(id, user_id, form.diagram_type, form.tags,
                           <<main_author(user_id)>> \o form.authors,
                           form.dataset_doi, form.is_draft)
                with_deposition == [row EXCEPT !.deposition_id = id]
            IN /\ Len(datasets) < MaxDatasets
               /\ persisted' = made.session.persisted
               /\ response' = [op |-> "create_dataset", status |-> 200,
                               dataset_id |-> id, outcome |-> outcome,
                               exc |-> made.exc,
                               events |-> made.session.events]
               /\ IF ~should_publish \/ outcome \in {"deposition_error",
                                                      "no_conceptrecid"}
                  THEN /\ datasets' = Append(datasets, row)
                       /\ temp_folder' = {}
                  ELSE IF outcome = "publish_error"
                  THEN /\ datasets' = Append(datasets, with_deposition)
                       /\ temp_folder' =
                            {f \in temp_folder : f.name \notin moved}
                  ELSE /\ datasets' =
                            Append(datasets,
                                   [with_deposition EXCEPT
                                      !.dataset_doi = fakenodo_doi(id),
                                      !.is_draft = FALSE])
                       /\ temp_folder' = {}
    /\ UNCHANGED <<view_records, download_records, last_call, now, calls,
                   outside>>

\* the response of the request in progress is sent; the next request starts
SendResponse ==
    /\ response # NoResponse
    /\ response' = NoResponse
    /\ UNCHANGED <<datasets, view_records, download_records, last_call>>
    /\ UNCHANGED side

\* the same step, seen by a caller that keeps the last answer of
\* recommend_simple together with the tables the call has read
SendResponseLogged ==
    /\ response # NoResponse
    /\ response' = NoResponse
    /\ last_call' = IF response.op = "recommend_simple"
                    THEN [op |-> "recommend_simple",
                          dataset_id |-> response.dataset_id,
                          top_n |-> response.top_n,
                          exc |-> response.exc,
                          result |-> response.result,
                          pool |-> datasets,
                          pops |-> popularity_list(datasets)]
                    ELSE last_call
    /\ UNCHANGED <<datasets, view_records, download_records>>
    /\ UNCHANGED side

\* the ids and DOIs a request may name: every existing one and a missing one
RequestIds == {None} \cup (1..(Len(datasets) + 1))
RequestDois == {OldDoi} \cup (1..(Len(datasets) + 1))

Next ==
    \/ \E dataset_id \in RequestIds, top_n \in TopNs :
          RecommendSimple(dataset_id, top_n)
    \/ \E doi \in RequestDois, u \in RequestUsers, c \in RequestCookies :
          subdomain_index(doi, u, c)
    \/ \E dataset_id \in RequestIds \ {None}, u \in RequestUsers,
          c \in RequestCookies :
          download_dataset(dataset_id, u, c)
    \/ \E form \in UploadForms, outcome \in {"ok"} :
          create_dataset(1, form, outcome)
    \/ SendResponse

Spec == Init /\ [][Next]_vars

\* The caller's view: repeated recommendations for dataset 1 of the pool of
\* six datasets, between page views and downloads by other clients, with the
\* caller's record of the last call.
InitLogged ==
    /\ datasets = limit_n_pool
    /\ view_records = EmptyBag
    /\ download_records = EmptyBag
    /\ response = NoResponse
    /\ last_call = NoResponse
    /\ now = 0
    /\ calls = [c \in Callers |-> Idle]
    /\ temp_folder = {}
    /\ persisted = seed_rows(datasets)
    /\ outside = outside_files

NextLogged ==
    \/ \E top_n \in {1, MaxTopN} : RecommendSimple(1, top_n)
    \/ \E doi \in RequestDois, u \in RequestUsers, c \in RequestCookies :
          subdomain_index(doi, u, c)
    \/ \E dataset_id \in RequestIds \ {None}, u \in RequestUsers,
          c \in RequestCookies :
          download_dataset(dataset_id, u, c)
    \/ SendResponseLogged

SpecLogged == InitLogged /\ [][NextLogged]_vars

\* ---------------------------------------------------------------------
\* recommend_simple query by query, next to registrations that commit
\* between its queries.  Every query reads the rows committed at that
\* moment: the code opens no snapshot and takes no lock.
MaxRegistrations == 2

\* `moments` of a call in progress: the popularity_list values that the
\* tables have held since the call started
seen(call, pops) ==
    IF call.pc \in {"views", "downloads"}
    THEN [call EXCEPT !.moments = @ \cup {pops}]
    ELSE call

\* datasets = self.repository.model.query.all(); target = next(...);
\* if not target: return []
StartCall(c, dataset_id, top_n) ==
    /\ calls[c].pc = "idle"
    /\ LET pool == datasets
           call == [pc |-> "idle",
                    dataset_id |-> dataset_id, top_n |-> top_n, pool |-> pool,
                    i |-> 1, views |-> 0, pops |-> <<>>,
                    moments |-> {popularity_list(pool)},
                    exc |-> "", result |-> <<>>]
       IN calls' = [calls EXCEPT ![c] =
                      IF find_target(pool, dataset_id) = None
                      THEN [call EXCEPT !.pc = "done",
                                        !.result = target_not_found(pool).val.result]
                      ELSE [call EXCEPT !.pc = "views"]]
    /\ UNCHANGED <<datasets, view_records, download_records, response,
                   last_call, now, temp_folder, persisted,
                   outside>>

\* (mutant) get_popularity that counts the views of the target for every
\* dataset
ReadViews_of_target(c) ==
    /\ calls[c].pc = "views"
    /\ calls' = [calls EXCEPT ![c].pc = "downloads",
                              ![c].views = count_by_dataset(view_records,
                                                            calls[c].dataset_id)]
    /\ UNCHANGED <<datasets, view_records, download_records, response,
                   last_call, now, temp_folder, persisted,
                   outside>>

\* get_popularity: views = ...query.filter_by(dataset_id=dataset_id).count()
ReadViews(c) ==
    /\ calls[c].pc = "views"
    /\ calls' = [calls EXCEPT ![c].pc = "downloads",
                              ![c].views = count_by_dataset(view_records,
                                                            calls[c].pool[calls[c].i].id)]
    /\ UNCHANGED <<datasets, view_records, download_records, response,
                   last_call, now, temp_folder, persisted,
                   outside>>

\* get_popularity: downloads = ...count(); return views + downloads; after
\* the last dataset, the rest of recommend_simple
ReadDownloads(c) ==
    /\ calls[c].pc = "downloads"
    /\ LET call == calls[c]
           downloads == count_by_dataset(download_records, call.pool[call.i].id)
           pops == Append(call.pops, call.views + downloads)
           r == rank_pool(call.pool, pops, call.dataset_id, call.top_n)
       IN calls' = [calls EXCEPT ![c] =
                      IF call.i < Len(call.pool)
                      THEN [call EXCEPT !.pc = "views", !.i = @ + 1,
                                        !.pops = pops]
                      ELSE [call EXCEPT !.pc = "done", !.pops = pops,
                                        !.exc = r.exc,
                                        !.result = IF r.exc = "" THEN r.val.result
                                                   ELSE <<>>]]
    /\ UNCHANGED <<datasets, view_records, download_records, response,
                   last_call, now, temp_folder, persisted,
                   outside>>

\* the call returns
Return(c) ==
    /\ calls[c].pc = "done"
    /\ calls' = [calls EXCEPT ![c] = Idle]
    /\ UNCHANGED <<datasets, view_records, download_records, response,
                   last_call, now, temp_folder, persisted,
                   outside>>

\* DSViewRecordRepository.create_new_record commits one view record
create_new_record(user_id, dataset_id, user_cookie) ==
    /\ records_created < MaxRegistrations
    /\ view_records' = insert(view_records, user_id, dataset_id, user_cookie)
    /\ UNCHANGED <<datasets, download_records, response, last_call, now,
                   temp_folder, persisted,
                   outside>>
    /\ calls' = [c \in Callers |-> seen(calls[c], popularity_list(datasets)')]

\* DSDownloadRecordService().create commits one download record
create_download_record(user_id, dataset_id, download_cookie) ==
    /\ records_created < MaxRegistrations
    /\ download_records' = insert_download(download_records, user_id,
                                           dataset_id, download_cookie)
    /\ UNCHANGED <<datasets, view_records, response, last_call, now,
                   temp_folder, persisted,
                   outside>>
    /\ calls' = [c \in Callers |-> seen(calls[c], popularity_list(datasets)')]

\* a target and two candidates that differ in nothing but their id
concurrent_pool == SubSeq(limit_n_pool, 1, 3)

InitConcurrent ==
    /\ datasets = concurrent_pool
    /\ view_records = EmptyBag
    /\ download_records = EmptyBag
    /\ response = NoResponse
    /\ last_call = NoResponse
    /\ now = 0
    /\ calls = [c \in Callers |-> Idle]
    /\ temp_folder = {}
    /\ persisted = seed_rows(datasets)
    /\ outside = outside_files

NextConcurrent ==
    \/ \E c \in Callers, dataset_id \in {1, Len(datasets) + 1} :
          StartCall(c, dataset_id, MaxTopN)
    \/ \E c \in Callers : ReadViews(c)
    \/ \E c \in Callers : ReadDownloads(c)
    \/ \E c \in Callers : Return(c)
    \/ \E dataset_id \in 1..Len(datasets) :
          \* create_cookie: `if not existing_record`
          /\ ~the_record_exists(None, dataset_id, ClientCookie)
          /\ create_new_record(None, dataset_id, ClientCookie)
    \/ \E dataset_id \in 1..Len(datasets) :
          create_download_record(None, dataset_id, ClientCookie)

SpecConcurrent == InitConcurrent /\ [][NextConcurrent]_vars

\* ---------------------------------------------------------------------
\* The trending requests, next to creations, publications, downloads and the
\* passing of time.
MaxNow == 31

\* time passes between two requests
Tick(days) ==
    /\ response = NoResponse
    /\ now + days <= MaxNow
    /\ now' = now + days
    /\ UNCHANGED <<datasets, view_records, download_records, response,
                   last_call, calls, temp_folder, persisted,
                   outside>>

\* TrendingDatasetsRepository.get_top_downloaded_datasets(limit, period_days)
top_downloaded_datasets(limit, period_days) ==
    /\ response = NoResponse
    /\ \E results \in get_top_downloaded_datasets(limit, period_days) :
          response' = [op |-> "get_top_downloaded_datasets", limit |-> limit,
                       period_days |-> period_days, results |-> results]
    /\ UNCHANGED <<datasets, view_records, download_records, last_call>>
    /\ UNCHANGED side

\* TrendingDatasetsService.get_trending_datasets(limit, period)
trending_datasets_service(limit, period) ==
    /\ response = NoResponse
    /\ LET period_days == get_period_days(period)
       IN IF period_days.exc # ""
          THEN response' = [op |-> "TrendingDatasetsService", period |-> period,
                            limit |-> limit, exc |-> period_days.exc,
                            queried |-> FALSE, period_days |-> NoPeriod,
                            results |-> <<>>]
          ELSE \E results \in get_top_downloaded_datasets(limit, period_days.val) :
                  response' = [op |-> "TrendingDatasetsService", period |-> period,
                               limit |-> limit, exc |-> "",
                               queried |-> TRUE, period_days |-> period_days.val,
                               results |-> results]
    /\ UNCHANGED <<datasets, view_records, download_records, last_call>>
    /\ UNCHANGED side

\* GET /datasets/trending?period=<period_arg>&limit=<limit_arg>
get_trending_datasets(period_arg, limit_arg) ==
    /\ response = NoResponse
    /\ LET period == lower(IF period_arg = NoneStr THEN Week ELSE period_arg)
           limit == IF limit_arg = NoArg THEN 10 ELSE limit_arg
           period_days == get_period_days(period)
           answer == [op |-> "get_trending_datasets", period_arg |-> period_arg,
                      limit_arg |-> limit_arg, status |-> 400, queried |-> FALSE,
                      period_days |-> NoPeriod, datasets |-> <<>>]
       IN IF period \notin {Week, Month} THEN response' = answer
          ELSE IF limit_error(limit) # "" THEN response' = answer
          ELSE IF period_days.exc # "" THEN response' = answer
          ELSE \E results \in get_top_downloaded_datasets(limit, period_days.val) :
                  response' = [answer EXCEPT !.status = 200, !.queried = TRUE,
                                             !.period_days = period_days.val,
                                             !.datasets = results]
    /\ UNCHANGED <<datasets, view_records, download_records, last_call>>
    /\ UNCHANGED side

\* (mutant) the lookup without the filter on is_draft
get_unsynchronized_dataset_any_state(user_id, dataset_id) ==
    {i \in 1..Len(datasets) :
        /\ datasets[i].user_id = user_id
        /\ datasets[i].id = dataset_id}

\* DataSetRepository.get_unsynchronized_dataset, as the indices of the rows
\* that the query matches
get_unsynchronized_dataset(user_id, dataset_id) ==
    {i \in 1..Len(datasets) :
        /\ datasets[i].user_id = user_id
        /\ datasets[i].id = dataset_id
        /\ datasets[i].is_draft}

\* (mutant) a publication that stores the deposition id only at the end
publish_dataset_late_deposition_id(user_id, dataset_id, outcome) ==
    /\ response = NoResponse
    /\ LET hits == get_unsynchronized_dataset(user_id, dataset_id)
           answer == [op |-> "publish_dataset", user_id |-> user_id,
                      dataset_id |-> dataset_id, outcome |-> outcome,
                      status |-> 500]
       IN IF hits = {}
          THEN /\ response' = [answer EXCEPT !.status = 404]
               /\ UNCHANGED datasets
          ELSE IF outcome # "ok"
          THEN /\ response' = answer
               /\ UNCHANGED datasets
          ELSE LET i == CHOOSE i \in hits : TRUE
               IN /\ datasets' = [datasets EXCEPT
                                    ![i].deposition_id = dataset_id,
                                    ![i].dataset_doi = fakenodo_doi(dataset_id),
                                    ![i].is_draft = FALSE]
                  /\ response' = [answer EXCEPT !.status = 302]
    /\ UNCHANGED <<view_records, download_records, last_call>>
    /\ UNCHANGED side

\* POST /dataset/publish/<dataset_id> by a logged-in user; outcome tells how
\* far the deposition gets
publish_dataset(user_id, dataset_id, outcome) ==
    /\ response = NoResponse
    /\ LET hits == get_unsynchronized_dataset(user_id, dataset_id)
           answer == [op |-> "publish_dataset", user_id |-> user_id,
                      dataset_id |-> dataset_id, outcome |-> outcome,
                      status |-> 500]
       IN IF hits = {}
          THEN /\ response' = [answer EXCEPT !.status = 404]
               /\ UNCHANGED datasets
          ELSE IF outcome \in {"deposition_error", "no_conceptrecid"}
          THEN /\ response' = answer
               /\ UNCHANGED datasets
          ELSE LET i == CHOOSE i \in hits : TRUE
               IN IF outcome = "publish_error"
                  THEN /\ datasets' = [datasets EXCEPT
                                         ![i].deposition_id = dataset_id]
                       /\ response' = answer
                  ELSE /\ datasets' = [datasets EXCEPT
                                         ![i].deposition_id = dataset_id,
                                         ![i].dataset_doi = fakenodo_doi(dataset_id),
                                         ![i].is_draft = FALSE]
                       /\ response' = [answer EXCEPT !.status = 302]
    /\ UNCHANGED <<view_records, download_records, last_call>>
    /\ UNCHANGED side

\* GET or POST /dataset/edit/<dataset_id> by a logged-in user; valid tells
\* whether the posted form validates. The handler changes the loaded
\* metadata and never commits, so the tables keep their rows
edit_dataset(user_id, dataset_id, method, valid) ==
    /\ response = NoResponse
    /\ LET hits == get_unsynchronized_dataset(user_id, dataset_id)
           answer == [op |-> "edit_dataset", user_id |-> user_id,
                      dataset_id |-> dataset_id, status |-> 200]
       IN response' = IF hits = {} THEN [answer EXCEPT !.status = 404]
                      ELSE IF method = "POST" /\ valid
                      THEN [answer EXCEPT !.status = 302]
                      ELSE answer
    /\ UNCHANGED <<datasets, view_records, download_records, last_call>>
    /\ UNCHANGED side

\* a DOI that the author types into the "Dataset DOI" field of the form (a
\* URL: no DOI of fakenodo passes the URL() validator)
FormDoi == 50

\* the DataSetForm posts of the trending runs: a draft, a draft with a typed
\* DOI, and a dataset to publish
TrendingForms ==
    { [diagram_type |-> FLOWCHART, tags |-> <<>>, authors |-> <<>>,
       dataset_doi |-> None, is_draft |-> TRUE],
      [diagram_type |-> FLOWCHART, tags |-> <<>>, authors |-> <<>>,
       dataset_doi |-> FormDoi, is_draft |-> TRUE],
      [diagram_type |-> FLOWCHART, tags |-> <<>>, authors |-> <<>>,
       dataset_doi |-> None, is_draft |-> FALSE] }

\* three published datasets with download records of day 0 and of day 24
trending_pool ==
    [i \in 1..3 |-> Row(i, 1, FLOWCHART, <<>>, <<>>, fakenodo_doi(i), FALSE)]
trending_download(dataset_id, day) ==
    [user_id |-> None, dataset_id |-> dataset_id, cookie |-> SeedCookie,
     download_date |-> day]
trending_downloads ==
    (trending_download(1, 0) :> 2) @@ (trending_download(1, 24) :> 1) @@
    (trending_download(2, 24) :> 2) @@ (trending_download(3, 0) :> 1)

InitTrending ==
    /\ \/ /\ datasets = <<>>
          /\ download_records = EmptyBag
          /\ now = 0
       \/ /\ datasets = trending_pool
          /\ download_records = trending_downloads
          /\ now = 24
    /\ view_records = EmptyBag
    /\ response = NoResponse
    /\ last_call = NoResponse
    /\ calls = [c \in Callers |-> Idle]
    /\ temp_folder = {}
    /\ persisted = seed_rows(datasets)
    /\ outside = outside_files

TrendingPeriods == {NoneStr, Week, Month, <<"W", "e", "e", "k">>, <<"y", "e", "a", "r">>}
TrendingLimits == {NoArg, 0, 1, 2, 100, 101}

NextTrending ==
    \/ \E form \in TrendingForms, outcome \in {"deposition_error", "ok"} :
          create_dataset(1, form, outcome)
    \/ \E dataset_id \in 1..(Len(datasets) + 1),
          outcome \in {"deposition_error", "no_conceptrecid", "ok"} :
          publish_dataset(1, dataset_id, outcome)
    \/ \E dataset_id \in RequestIds \ {None} :
          download_dataset(dataset_id, None, None)
    \/ \E days \in {7, 24} : Tick(days)
    \/ \E limit \in 1..3, period_days \in {NoPeriod, 7, 30} :
          top_downloaded_datasets(limit, period_days)
    \/ \E limit \in {1, 2}, period \in TrendingPeriods \ {NoneStr} :
          trending_datasets_service(limit, period)
    \/ \E period_arg \in TrendingPeriods, limit_arg \in TrendingLimits :
          get_trending_datasets(period_arg, limit_arg)
    \/ SendResponse

SpecTrending == InitTrending /\ [][NextTrending]_vars

\* ---------------------------------------------------------------------
\* Page views and downloads by an anonymous client and by user 1, with and
\* without cookies, on three datasets of which dataset 2 has been viewed
\* before by the anonymous holder of SeedCookie.
seed_view == [user_id |-> None, dataset_id |-> 2, cookie |-> SeedCookie]

InitRecords ==
    /\ datasets = concurrent_pool
    /\ view_records = SetToBag({seed_view})
    /\ download_records = EmptyBag
    /\ response = NoResponse
    /\ last_call = NoResponse
    /\ now = 0
    /\ calls = [c \in Callers |-> Idle]
    /\ temp_folder = {}
    /\ persisted = seed_rows(datasets)
    /\ outside = outside_files

NextRecords ==
    \/ \E doi \in RequestDois, u \in {None, 1},
          c \in RequestCookies \cup {SeedCookie} :
          subdomain_index(doi, u, c)
    \/ \E dataset_id \in RequestIds \ {None}, u \in {None, 1},
          c \in RequestCookies :
          download_dataset(dataset_id, u, c)
    \/ SendResponse

SpecRecords == InitRecords /\ [][NextRecords]_vars

\* ---------------------------------------------------------------------
\* The upload requests of one logged-in user.
MaxFiles == 3

MmdExtension == <<".", "m", "m", "d">>

\* POST /dataset/file/upload with request.files["file"] = file; mmdc tells
\* whether the mmdc tool is installed and what it says of the file
upload(file, mmdc) ==
    /\ response = NoResponse
    /\ IF file.filename = <<>> \/ ~endswith(file.filename, MmdExtension)
       THEN /\ response' = [op |-> "upload", file |-> file, status |-> 400,
                            json |-> [message |-> "No valid file"]]
            /\ UNCHANGED temp_folder
       ELSE LET name == new_filename(temp_folder, file.filename)
                saved == save(temp_folder, name, file.content)
                blocks == mermaid_blocks(file.content)
            IN /\ Cardinality(temp_folder) < MaxFiles
               /\ IF blocks = <<>>
                  THEN /\ temp_folder' = remove(saved, name)
                       /\ response' =
                            [op |-> "upload", file |-> file, status |-> 400,
                             json |-> [message |->
                               "No Mermaid diagram detected in the uploaded file"]]
                  ELSE IF Len(blocks) > 1
                  THEN /\ temp_folder' = remove(saved, name)
                       /\ response' =
                            [op |-> "upload", file |-> file, status |-> 400,
                             json |-> [message |->
                               "Multiple Mermaid diagrams detected in the uploaded file. Please upload one diagram per file."]]
                  ELSE IF mmdc = "fail"
                  THEN /\ temp_folder' = remove(saved, name)
                       /\ response' =
                            [op |-> "upload", file |-> file, status |-> 400,
                             json |-> [message |-> "Mermaid validation failed"]]
                  ELSE /\ temp_folder' = saved
                       /\ response' =
                            [op |-> "upload", file |-> file, status |-> 200,
                             json |-> [message |->
                                         "MMD uploaded and validated successfully",
                                       filename |-> name]]
    /\ UNCHANGED <<datasets, view_records, download_records, last_call, now,
                   calls, persisted, outside>>

\* walk(path) of upload_from_github_repo over the files that the GitHub API
\* lists, in order: the folder, found_files and errors after the walk
RECURSIVE walk(_, _, _, _, _, _)
walk(items, i, mmdc, folder, found_files, errors) ==
    IF i > Len(items)
    THEN [folder |-> folder, found_files |-> found_files, errors |-> errors]
    ELSE IF ~endswith(lower(items[i].name), MmdExtension)
    THEN walk(items, i + 1, mmdc, folder, found_files, errors)
    ELSE LET base_name == new_filename(folder, basename(items[i].name))
             saved == save(folder, base_name, items[i].content)
         IN IF mmdc = "fail"
            THEN walk(items, i + 1, mmdc, remove(saved, base_name), found_files,
                      Append(errors, [error |-> "Validation failed",
                                      name |-> base_name]))
            ELSE walk(items, i + 1, mmdc, saved,
                      Append(found_files, base_name), errors)

\* POST /dataset/file/upload_github for a repository with the given files
upload_from_github_repo(repo_url, items, mmdc) ==
    /\ response = NoResponse
    /\ IF repo_url # "https://github.com/owner/repo"
       THEN /\ response' =
                 [op |-> "upload_from_github_repo", items |-> items, status |-> 400,
                  json |-> [message |-> IF repo_url = ""
                                        THEN "repo_url is required"
                                        ELSE "Invalid GitHub repository URL"]]
            /\ UNCHANGED temp_folder
       ELSE LET w == walk(items, 1, mmdc, temp_folder, <<>>, <<>>)
            IN /\ Cardinality(temp_folder) + Len(items) <= MaxFiles
               /\ temp_folder' = w.folder
               /\ response' =
                    IF w.found_files = <<>>
                    THEN [op |-> "upload_from_github_repo", items |-> items,
                          status |-> 400,
                          json |-> [message |->
                            "No Mermaid (.mmd) files detected in the repository/path or all failed validation",
                                    errors |-> w.errors]]
                    ELSE [op |-> "upload_from_github_repo", items |-> items,
                          status |-> 200,
                          json |-> [message |-> "Files loaded from GitHub",
                                    filenames |-> w.found_files,
                                    errors |-> w.errors]]
    /\ UNCHANGED <<datasets, view_records, download_records, last_call, now,
                   calls, persisted, outside>>

\* file contents: one diagram; no diagram; two diagrams, the second indented
\* and in capitals; one diagram after a line that only begins like a keyword
OneDiagram == <<"p", "i", "e", "\n", "x">>
NoDiagram == <<"x">>
TwoDiagrams == <<"p", "i", "e", "\n", " ", "G", "A", "N", "T", "T">>
OneDiagramAfterText == <<"p", "i", "e", "s", "\n", "p", "i", "e", " ", "x">>

NameA == <<"a", ".", "m", "m", "d">>
NameA1 == <<"a", " ", "(", "1", ")", ".", "m", "m", "d">>
NameUpper == <<"A", ".", "M", "M", "D">>
NameZip == <<"m", ".", "z", "i", "p">>
NameTraversal == <<".", ".", "/", ".", ".", "/", ".", ".", "/", "e", "t", "c", "/", "p", "a", "s", "s", "w", "d", ".", "m", "m", "d">>
NameValid == <<"v", "a", "l", "i", "d", ".", "m", "m", "d">>

\* a file of request.files; members are the entries of a ZIP archive
File(filename, content, members) ==
    [filename |-> filename, content |-> content, members |-> members]

\* the archive of test_upload_zip_with_path_traversal
malicious_zip ==
    File(NameZip, <<"P", "K">>,
         <<[name |-> NameTraversal, content |-> OneDiagram],
           [name |-> NameValid, content |-> OneDiagram]>>)

UploadFiles ==
    {File(name, content, <<>>) :
        name \in {NameA, NameA1},
        content \in {OneDiagram, NoDiagram, TwoDiagrams, OneDiagramAfterText}}
    \cup {File(NameUpper, OneDiagram, <<>>), File(<<>>, <<>>, <<>>), malicious_zip}

GithubRepos ==
    { <<[name |-> NameA, content |-> OneDiagram]>>,
      <<[name |-> NameA, content |-> TwoDiagrams],
        [name |-> NameA, content |-> OneDiagram]>>,
      <<[name |-> NameUpper, content |-> NoDiagram],
        [name |-> NameZip, content |-> NoDiagram]>> }

InitUpload ==
    /\ datasets = <<>>
    /\ view_records = EmptyBag
    /\ download_records = EmptyBag
    /\ response = NoResponse
    /\ last_call = NoResponse
    /\ now = 0
    /\ calls = [c \in Callers |-> Idle]
    /\ temp_folder = {}
    /\ persisted = seed_rows(datasets)
    /\ outside = outside_files

NextUpload ==
    \/ \E file \in UploadFiles, mmdc \in {"absent", "ok", "fail"} :
          upload(file, mmdc)
    \/ \E repo_url \in {"", "owner/repo", "https://github.com/owner/repo"},
          items \in GithubRepos, mmdc \in {"absent", "fail"} :
          upload_from_github_repo(repo_url, items, mmdc)
    \/ SendResponse

SpecUpload == InitUpload /\ [][NextUpload]_vars

\* ---------------------------------------------------------------------
\* The life of the datasets of two users: uploads with every outcome,
\* publications with every outcome, and edits.
LifecycleUsers == {1, 2}

InitLifecycle ==
    /\ datasets = <<>>
    /\ view_records = EmptyBag
    /\ download_records = EmptyBag
    /\ response = NoResponse
    /\ last_call = NoResponse
    /\ now = 0
    /\ calls = [c \in Callers |-> Idle]
    /\ temp_folder \in {{}, {[name |-> NameA, content |-> OneDiagram]}}
    /\ persisted = seed_rows(datasets)
    /\ outside = outside_files

NextLifecycle ==
    \/ \E user_id \in LifecycleUsers, form \in TrendingForms,
          outcome \in CreateOutcomes :
          create_dataset(user_id, form, outcome)
    \/ \E user_id \in LifecycleUsers, dataset_id \in 1..(Len(datasets) + 1),
          outcome \in PublishOutcomes :
          publish_dataset(user_id, dataset_id, outcome)
    \/ \E user_id \in LifecycleUsers, dataset_id \in 1..(Len(datasets) + 1),
          method \in {"GET", "POST"}, valid \in BOOLEAN :
          edit_dataset(user_id, dataset_id, method, valid)
    \/ SendResponse

SpecLifecycle == InitLifecycle /\ [][NextLifecycle]_vars

\* ---------------------------------------------------------------------
\* The file requests of user 1: uploads and deletions.

\* POST /dataset/file/delete with the JSON body {"file": filename}
delete(filename) ==
    /\ response = NoResponse
    /\ LET filepath == join(temp_folder_path, filename)
           target == resolve(filepath)
           name == name_in_temp_folder(target)
           answer == [op |-> "delete", filename |-> filename,
                      target |-> target, status |-> 200,
                      json |-> [message |-> "File deleted successfully"]]
       IN IF name # <<>> /\ name \in names_of(temp_folder)
          THEN /\ temp_folder' = remove(temp_folder, name)
               /\ outside' = outside
               /\ response' = answer
          ELSE IF target \in outside
          THEN /\ outside' = outside \ {target}
               /\ temp_folder' = temp_folder
               /\ response' = answer
          ELSE /\ UNCHANGED <<temp_folder, outside>>
               /\ response' = [answer EXCEPT
                                 !.json = [error |-> "Error: File not found"]]
    /\ UNCHANGED <<datasets, view_records, download_records, last_call, now,
                   calls, persisted>>

\* the values of "file": a stored file, the same with a "." component, a
\* missing file, a path with ".." components, an absolute path
DeleteNames ==
    { NameA, <<".", "/", "a", " ", "(", "1", ")", ".", "m", "m", "d">>, <<"m", "i", "s", "s", "i", "n", "g", ".", "m", "m", "d">>,
      <<".", ".", "/", "2", "/", "b", ".", "m", "m", "d">>, <<"/", "e", "t", "c", "/", "p", "a", "s", "s", "w", "d">>,
      <<".", ".", "/", ".", ".", "/", ".", ".", "/", "e", "t", "c", "/", "s", "h", "a", "d", "o", "w">> }

InitDelete ==
    /\ datasets = <<>>
    /\ view_records = EmptyBag
    /\ download_records = EmptyBag
    /\ response = NoResponse
    /\ last_call = NoResponse
    /\ now = 0
    /\ calls = [c \in Callers |-> Idle]
    /\ temp_folder = {}
    /\ persisted = seed_rows(datasets)
    /\ outside = outside_files

NextDelete ==
    \/ \E content \in {OneDiagram, OneDiagramAfterText} :
          upload(File(NameA, content, <<>>), "ok")
    \/ \E filename \in DeleteNames : delete(filename)
    \/ SendResponse

SpecDelete == InitDelete /\ [][NextDelete]_vars

\* ---------------------------------------------------------------------
\* GET /explore: ExploreRepository.filter with an empty query (no word, so
\* no text filter), a diagram type and a list of tags.
\* `for member in DiagramType`, in the order of the enum
DiagramTypeMembers == <<FLOWCHART, SEQUENCE_DIAGRAM>>
\* member.value.lower()
member_value_lower(member) ==
    IF member = FLOWCHART THEN "flowchart" ELSE "sequence_diagram"

\* the loop over DiagramType: the first member whose lowered value is
\* diagram_type, as a set that is empty when matching_type stays None
matching_type(diagram_type) ==
    LET hits == {k \in DOMAIN DiagramTypeMembers :
                    member_value_lower(DiagramTypeMembers[k]) = diagram_type}
    IN {DiagramTypeMembers[k] : k \in {h \in hits : \A j \in hits : h <= j}}

\* column.ilike(f"%{word}%"): NULL matches nothing
ilike(column, word) ==
    /\ column # NoneStr
    /\ \E i \in 0..(Len(column) - Len(word)) :
          SubSeq(lower(column), i + 1, i + Len(word)) = lower(word)

\* the joins and filters of the query of ExploreRepository.filter
matches(ds, diagram_type, tags) ==
    /\ ds.authors # <<>>
    /\ ds.dataset_doi # None
    /\ (diagram_type # "any" /\ matching_type(diagram_type) # {})
          => ds.diagram_type \in matching_type(diagram_type)
    /\ tags # <<>> => \E k \in DOMAIN tags : ilike(ds.tags, tags[k])

\* DataSet.query.filter(DataSet.id.in_(dataset_ids)).all(): the rows in
\* every order the database may produce (the query has no ORDER BY)
query_all(rows) ==
    {list \in [1..Cardinality(rows) -> rows] :
        \A i, j \in DOMAIN list : i # j => list[i] # list[j]}

\* [id_to_dataset[tid] for tid in trending_ids if tid in id_to_dataset]
RECURSIVE trending_filtered(_, _)
trending_filtered(list, trending_ids) ==
    IF trending_ids = <<>> THEN <<>>
    ELSE LET tid == Head(trending_ids)
             hits == {k \in DOMAIN list : list[k].id = tid}
             rest == trending_filtered(list, Tail(trending_ids))
         IN IF hits = {} THEN rest
            ELSE <<list[CHOOSE k \in hits : \A j \in hits : j <= k]>> \o rest

\* (mutant) non_trending without `if d.id not in trending_ids`
non_trending_unfiltered(list, trending_ids) == list

\* [d for d in datasets if d.id not in trending_ids]
non_trending(list, trending_ids) ==
    SelectSeq(list, LAMBDA d : \A k \in DOMAIN trending_ids : trending_ids[k] # d.id)

\* ExploreRepository.filter(query="", sorting, diagram_type, tags) for the
\* sortings "trending_week" and "trending_month"
filter(sorting, diagram_type, tags) ==
    /\ response = NoResponse
    /\ LET period == IF sorting = "trending_week" THEN Week ELSE Month
           period_days == get_period_days(period).val
           rows == {datasets[i] : i \in {j \in 1..Len(datasets) :
                                     matches(datasets[j], diagram_type, tags)}}
       IN \E list \in query_all(rows),
             trending_tuples \in get_top_downloaded_datasets(1000, period_days) :
             LET trending_ids == [k \in DOMAIN trending_tuples |-> trending_tuples[k].id]
             IN response' = [op |-> "ExploreRepository.filter",
                             sorting |-> sorting, diagram_type |-> diagram_type,
                             tags |-> tags, matched |-> list,
                             trending_ids |-> trending_ids,
                             datasets |-> trending_filtered(list, trending_ids)
                                          \o non_trending(list, trending_ids)]
    /\ UNCHANGED <<datasets, view_records, download_records, last_call>>
    /\ UNCHANGED side

\* four datasets: 1..3 published with an author, of which 2 is a sequence
\* diagram and 3 has other tags; 4 is a draft
explore_pool ==
    << Row(1, 1, FLOWCHART, TagA, <<"X">>, fakenodo_doi(1), FALSE),
       Row(2, 1, SEQUENCE_DIAGRAM, TagA, <<"X">>, fakenodo_doi(2), FALSE),
       Row(3, 1, FLOWCHART, <<"b">>, <<"Y">>, fakenodo_doi(3), FALSE),
       Row(4, 1, FLOWCHART, TagA, <<"X">>, None, TRUE) >>

ExploreSortings == {"trending_week", "trending_month"}
ExploreDiagramTypes == {"any", "flowchart", "unknown"}
ExploreTags == {<<>>, << <<"t", "a", "g", "a">> >>}

InitExplore ==
    /\ datasets = explore_pool
    /\ download_records = trending_downloads
    /\ now = 24
    /\ view_records = EmptyBag
    /\ response = NoResponse
    /\ last_call = NoResponse
    /\ calls = [c \in Callers |-> Idle]
    /\ temp_folder = {}
    /\ persisted = seed_rows(datasets)
    /\ outside = outside_files

NextExplore ==
    \/ \E dataset_id \in 1..Len(datasets) :
          download_dataset(dataset_id, None, None)
    \/ Tick(7)
    \/ \E sorting \in ExploreSortings, diagram_type \in ExploreDiagramTypes,
          tags \in ExploreTags :
          filter(sorting, diagram_type, tags)
    \/ SendResponse

SpecExplore == InitExplore /\ [][NextExplore]_vars

\* ---------------------------------------------------------------------
\* Concurrent page views.  Each request runs create_cookie in a worker of
\* its own, with a database session of its own: the query of
\* the_record_exists and the insert of create_new_record are two steps,
\* and the steps of other requests may run in between.
\* str(uuid.uuid4()) of a request in progress: a value that no record, no
\* client and no other request holds
fresh_uuid4 ==
    1 + SetMax({ClientCookie, SeedCookie}
               \cup {r.cookie : r \in DOMAIN view_records}
               \cup {calls[c].user_cookie :
                        c \in {d \in Callers : calls[d].pc = "existing_record"}})

\* requests that have started and may still create a record
views_in_progress == Cardinality({c \in Callers : calls[c].pc # "idle"})

\* create_cookie up to `existing_record = self.the_record_exists(...)`
create_cookie_the_record_exists(c, user_id, dataset_id, view_cookie) ==
    /\ calls[c].pc = "idle"
    /\ created(view_records) + views_in_progress < MaxRegistrations
    /\ LET user_cookie == IF view_cookie = None THEN fresh_uuid4 ELSE view_cookie
       IN calls' = [calls EXCEPT ![c] =
                      [pc |-> "existing_record", user_id |-> user_id,
                       dataset_id |-> dataset_id, user_cookie |-> user_cookie,
                       existing_record |->
                           the_record_exists(user_id, dataset_id, user_cookie)]]
    /\ UNCHANGED <<datasets, view_records, download_records, response,
                   last_call, now, temp_folder, persisted, outside>>

\* create_cookie from `if not existing_record` to its return
create_cookie_create_new_record(c) ==
    /\ calls[c].pc = "existing_record"
    /\ view_records' =
          IF ~calls[c].existing_record
          THEN insert(view_records, calls[c].user_id, calls[c].dataset_id,
                      calls[c].user_cookie)
          ELSE view_records
    /\ calls' = [calls EXCEPT ![c] = Idle]
    /\ UNCHANGED <<datasets, download_records, response, last_call, now,
                   temp_folder, persisted, outside>>

ViewUsers == {None, 1}

InitViews ==
    /\ datasets = concurrent_pool
    /\ view_records = SetToBag({seed_view})
    /\ download_records = EmptyBag
    /\ response = NoResponse
    /\ last_call = NoResponse
    /\ now = 0
    /\ calls = [c \in Callers |-> Idle]
    /\ temp_folder = {}
    /\ persisted = seed_rows(datasets)
    /\ outside = outside_files

NextViews ==
    \/ \E c \in Callers, user_id \in ViewUsers, dataset_id \in 1..Len(datasets),
          view_cookie \in RequestCookies :
          create_cookie_the_record_exists(c, user_id, dataset_id, view_cookie)
    \/ \E c \in Callers : create_cookie_create_new_record(c)

SpecViews == InitViews /\ [][NextViews]_vars

\* ---------------------------------------------------------------------
\* Properties of recommend_simple.  A response stays in `response` until
\* SendResponse, and no other handler runs in between, so in a state with a
\* recommend_simple response the tables are the ones the call has read.
\* ---------------------------------------------------------------------
IsRec == response.op = "recommend_simple"

\* the pool of the call contains a dataset with the id that was asked for
TargetInPool == \E i \in DOMAIN datasets : datasets[i].id = response.dataset_id

TargetRow == CHOOSE d \in SeqToSet(datasets) : d.id = response.dataset_id

\* the datasets of the pool other than the target
Candidates == {d \in SeqToSet(datasets) : d.id # response.dataset_id}

PoolIndex(id) == CHOOSE i \in DOMAIN datasets : datasets[i].id = id

Position(seq, id) == CHOOSE i \in DOMAIN seq : seq[i] = id

Min(a, b) == IF a <= b THEN a ELSE b

\* the score the call gave to the candidate with this id
RankedScore(id) == (CHOOSE e \in SeqToSet(response.results) : e.id = id).score

FracLe(a, b) == a.num * b.den <= b.num * a.den
FracEq(a, b) == a.num * b.den = b.num * a.den

\* C1: for every pool that contains the target and every top_n >= 1, the
\* list returned by recommend_simple never contains the dataset whose id is
\* the target id (the page handler's list included).
Thm_C1_TargetExcluded ==
    /\ (IsRec /\ TargetInPool /\ response.top_n >= 1)
         => /\ response.exc = ""
            /\ \A i \in DOMAIN response.result :
                  response.result[i] # response.dataset_id
    /\ (response.op = "subdomain_index" /\ response.status = 200)
         => \A i \in DOMAIN response.recommended :
               response.recommended[i] # response.dataset_id

Wit_C1_TargetExcluded ==
    /\ IsRec /\ TargetInPool
    /\ Cardinality(Candidates) = 3
    /\ SeqToSet(response.result) = {c.id : c \in Candidates}

\* C2: for every pool that contains the target and every top_n >= 1,
\* recommend_simple returns exactly min(top_n, E) datasets, E being the
\* number of datasets of the pool other than the target; a pool holding only
\* the target yields the empty list; 5 candidates with top_n = 3 yield 3.
Thm_C2_ResultLength ==
    (IsRec /\ TargetInPool /\ response.top_n >= 1)
      => /\ response.exc = ""
         /\ Len(response.result) = Min(response.top_n, Cardinality(Candidates))
         /\ (Len(datasets) = 1 => response.result = <<>>)
         /\ (Cardinality(Candidates) = 5 /\ response.top_n = 3
               => Len(response.result) = 3)

Wit_C2_ResultLength ==
    /\ IsRec /\ TargetInPool
    /\ Cardinality(Candidates) = 5
    /\ response.top_n = 3
    /\ Len(response.result) = 3

Thm_C4_SortedByScore ==
    (IsRec /\ TargetInPool /\ response.top_n >= 1)
      => /\ response.exc = ""
         /\ {e.id : e \in SeqToSet(response.results)} = {c.id : c \in Candidates}
         /\ SeqToSet(response.result) \subseteq {c.id : c \in Candidates}
         /\ Len(response.result) = Min(response.top_n, Cardinality(Candidates))
         /\ \A i \in DOMAIN response.result :
               i < Len(response.result)
                 => FracLe(RankedScore(response.result[i + 1]),
                           RankedScore(response.result[i]))
         /\ \A c \in Candidates :
               c.id \notin SeqToSet(response.result)
                 => \A i \in DOMAIN response.result :
                       FracLe(RankedScore(c.id), RankedScore(response.result[i]))

\* the sort has moved a later dataset of the pool in front of an earlier one,
\* and a candidate was left out
Wit_C4_SortedByScore ==
    /\ IsRec /\ TargetInPool
    /\ Len(response.result) = 2
    /\ Cardinality(Candidates) = 3
    /\ PoolIndex(response.result[1]) > PoolIndex(response.result[2])
    /\ ~FracEq(RankedScore(response.result[1]), RankedScore(response.result[2]))

\* C5: candidates of equal total score keep the relative order of the pool
\* (stable descending sort), also across the cut at top_n; 5 identical
\* candidates 2..6 with top_n = 3 give [2, 3, 4].
Thm_C5_StableOrder ==
    (IsRec /\ TargetInPool /\ response.top_n >= 1)
      => /\ response.exc = ""
         /\ \A a, b \in Candidates :
               (/\ PoolIndex(a.id) < PoolIndex(b.id)
                /\ FracEq(RankedScore(a.id), RankedScore(b.id))
                /\ b.id \in SeqToSet(response.result))
                 => /\ a.id \in SeqToSet(response.result)
                    /\ Position(response.result, a.id)
                         < Position(response.result, b.id)
         /\ (/\ datasets = limit_n_pool
             /\ records_created = 0
             /\ response.dataset_id = 1
             /\ response.top_n = 3)
               => response.result = <<2, 3, 4>>

Wit_C5_StableOrder ==
    /\ IsRec
    /\ datasets = limit_n_pool
    /\ records_created = 0
    /\ response.dataset_id = 1
    /\ response.top_n = 3
    /\ response.result = <<2, 3, 4>>

\* the tags of a tag string, stated without a scan: the maximal runs of
\* characters that are neither a comma nor a blank
IsSeparator(ch) == ch \in {",", " "}

Words(tags) ==
    IF tags = NoneStr THEN {}
    ELSE { SubSeq(tags, p[1], p[2]) :
             p \in { q \in (DOMAIN tags) \X (DOMAIN tags) :
                       /\ q[1] <= q[2]
                       /\ \A k \in q[1]..q[2] : ~IsSeparator(tags[k])
                       /\ q[1] = 1 \/ IsSeparator(tags[q[1] - 1])
                       /\ q[2] = Len(tags) \/ IsSeparator(tags[q[2] + 1]) } }

SameType(t, c) == IF t.diagram_type = c.diagram_type THEN 1 ELSE 0
TagOverlap(t, c) == Cardinality(Words(t.tags) \cap Words(c.tags))
AuthorOverlap(t, c) ==
    Cardinality({n \in SeqToSet(t.authors) : \E i \in DOMAIN c.authors : c.authors[i] = n})

\* 3 * type match + tag overlap + author overlap
IntSim(t, c) == 3 * SameType(t, c) + TagOverlap(t, c) + AuthorOverlap(t, c)

\* view records + download records of a dataset
Popularity(id) ==
    LET all == view_records (+) download_records
    IN BagCardinality([r \in {x \in BagToSet(all) : x.dataset_id = id} |-> CopiesIn(r, all)])

\* the maximum over the whole pool, 1 when that is 0
MaxPopularity == SetMax({Popularity(d.id) : d \in SeqToSet(datasets)} \cup {1})

\* numerator of the popularity part of the score of a candidate, over the
\* denominator of its score
Contribution(c) ==
    RankedScore(c.id).num - IntSim(TargetRow, c) * RankedScore(c.id).den

\* C6: the score of every candidate c is 3 for the target's diagram type,
\* plus the number of common tags (split on commas and blanks, compared
\* exactly), plus the number of common author names, plus
\* 0.5 * popularity(c) / maxPopularity; without tags and authors and with the
\* target's type that is exactly 3 + 0.5 * popularity / maxPopularity.
Thm_C6_ScoreFormula ==
    (IsRec /\ TargetInPool)
      => /\ response.exc = ""
         /\ \A c \in Candidates :
               /\ FracEq(RankedScore(c.id),
                         [num |-> IntSim(TargetRow, c) * 2 * MaxPopularity
                                    + Popularity(c.id),
                          den |-> 2 * MaxPopularity])
               /\ (/\ Words(c.tags) = {}
                   /\ c.authors = <<>>
                   /\ c.diagram_type = TargetRow.diagram_type)
                     => FracEq(RankedScore(c.id),
                               [num |-> 6 * MaxPopularity + Popularity(c.id),
                                den |-> 2 * MaxPopularity])

\* a candidate without tags and authors scores 3.25, another one has two tags
\* and two authors in common with the target
Wit_C6_ScoreFormula ==
    /\ IsRec /\ TargetInPool
    /\ \E c \in Candidates :
          /\ Words(c.tags) = {} /\ c.authors = <<>>
          /\ c.diagram_type = TargetRow.diagram_type
          /\ FracEq(RankedScore(c.id), [num |-> 13, den |-> 4])
    /\ \E c \in Candidates :
          /\ TagOverlap(TargetRow, c) = 2 /\ AuthorOverlap(TargetRow, c) = 2
          /\ c.tags # TargetRow.tags

\* C7: maxPopularity is the maximum popularity (view + download records)
\* over the whole pool, target included, and 1 when that maximum is 0; the
\* call never divides by zero and every popularity contribution lies in
\* [0, 0.5]; popularities 0, 50, 100 under a maximum of 100 contribute
\* 0, 0.25 and 0.5.
Thm_C7_PopularityNormalised ==
    (IsRec /\ TargetInPool)
      => /\ response.exc = ""
         /\ max_popularity(popularity_list(datasets)) = Ok(MaxPopularity)
         /\ MaxPopularity >= 1
         /\ MaxPopularity >= Popularity(response.dataset_id)
         /\ \A c \in Candidates :
               /\ Contribution(c) >= 0
               /\ 2 * Contribution(c) <= RankedScore(c.id).den
               /\ Contribution(c) * 2 * MaxPopularity
                    = Popularity(c.id) * RankedScore(c.id).den
               /\ (MaxPopularity = 100 /\ Popularity(c.id) = 0)
                     => Contribution(c) = 0
               /\ (MaxPopularity = 100 /\ Popularity(c.id) = 50)
                     => 4 * Contribution(c) = RankedScore(c.id).den
               /\ (MaxPopularity = 100 /\ Popularity(c.id) = 100)
                     => 2 * Contribution(c) = RankedScore(c.id).den

Wit_C7_PopularityNormalised ==
    /\ IsRec /\ TargetInPool
    /\ MaxPopularity = 100
    /\ {Popularity(c.id) : c \in Candidates} = {0, 50, 100}
    /\ \E c \in Candidates : 4 * Contribution(c) = RankedScore(c.id).den

RankPosition(id) == CHOOSE i \in DOMAIN response.results : response.results[i].id = id

\* C8: popularity is only a tie-breaker: a candidate of strictly greater
\* integer similarity is ranked before one of smaller similarity whatever
\* their popularities, and the ranking departs from the pool order only for
\* a greater similarity or, at equal similarity, a greater popularity.
Thm_C8_PopularityTieBreak ==
    (IsRec /\ TargetInPool /\ response.top_n >= 1)
      => /\ response.exc = ""
         /\ \A a, b \in Candidates :
               /\ IntSim(TargetRow, a) > IntSim(TargetRow, b)
                    => /\ RankPosition(a.id) < RankPosition(b.id)
                       /\ b.id \in SeqToSet(response.result)
                            => /\ a.id \in SeqToSet(response.result)
                               /\ Position(response.result, a.id)
                                    < Position(response.result, b.id)
               /\ (/\ RankPosition(a.id) < RankPosition(b.id)
                   /\ PoolIndex(a.id) > PoolIndex(b.id))
                    => \/ IntSim(TargetRow, a) > IntSim(TargetRow, b)
                       \/ /\ IntSim(TargetRow, a) = IntSim(TargetRow, b)
                          /\ Popularity(a.id) > Popularity(b.id)

\* a candidate with less popularity and more similarity is returned first
Wit_C8_PopularityTieBreak ==
    /\ IsRec /\ TargetInPool
    /\ \E a, b \in Candidates :
          /\ IntSim(TargetRow, a) > IntSim(TargetRow, b)
          /\ Popularity(a.id) < Popularity(b.id)
          /\ PoolIndex(a.id) > PoolIndex(b.id)
          /\ b.id \in SeqToSet(response.result)
          /\ a.id \in SeqToSet(response.result)
          /\ Position(response.result, a.id) < Position(response.result, b.id)

EmptyTags(tags) == tags = NoneStr \/ tags = <<>>

\* C9: tags that are None or empty, or an empty author list, on a candidate
\* or on the target never make recommend_simple raise: the overlap counts 0
\* and the candidate is still ranked, and returned when top_n allows.
Thm_C9_EmptyTagsAuthors ==
    (IsRec /\ TargetInPool /\ response.top_n >= 1)
      => /\ response.exc = ""
         /\ \A c \in Candidates :
               /\ \E i \in DOMAIN response.results : response.results[i].id = c.id
               /\ Cardinality(Candidates) <= response.top_n
                    => c.id \in SeqToSet(response.result)
               /\ (EmptyTags(c.tags) \/ EmptyTags(TargetRow.tags))
                    => /\ tag_similarity(TargetRow, c) = Ok(0)
                       /\ FracEq(RankedScore(c.id),
                                 [num |-> (3 * SameType(TargetRow, c)
                                           + AuthorOverlap(TargetRow, c))
                                          * 2 * MaxPopularity + Popularity(c.id),
                                  den |-> 2 * MaxPopularity])
               /\ (c.authors = <<>> \/ TargetRow.authors = <<>>)
                    => /\ author_similarity(TargetRow, c) = 0
                       /\ FracEq(RankedScore(c.id),
                                 [num |-> (3 * SameType(TargetRow, c)
                                           + TagOverlap(TargetRow, c))
                                          * 2 * MaxPopularity + Popularity(c.id),
                                  den |-> 2 * MaxPopularity])

\* a candidate with tags None and no authors is returned for a target that
\* has tags and authors
Wit_C9_EmptyTagsAuthors ==
    /\ IsRec /\ TargetInPool
    /\ ~EmptyTags(TargetRow.tags) /\ TargetRow.authors # <<>>
    /\ \E c \in Candidates :
          /\ c.tags = NoneStr /\ c.authors = <<>>
          /\ c.id \in SeqToSet(response.result)

\* the call in progress has the arguments of the last call that returned
SameArguments ==
    /\ last_call.op = "recommend_simple"
    /\ response'.dataset_id = last_call.dataset_id
    /\ response'.top_n = last_call.top_n

\* the tables hold what the last call has read
SameTables ==
    /\ last_call.pool = datasets
    /\ last_call.pops = popularity_list(datasets)

IsRecommendStep == response.op = "none" /\ response'.op = "recommend_simple"

DoneCalls == {c \in Callers : calls[c].pc = "done"}

\* what a call that runs alone returns on the popularity counts m
SequentialResult(call, m) ==
    IF find_target(call.pool, call.dataset_id) = None THEN Ok(<<>>)
    ELSE LET r == rank_pool(call.pool, m, call.dataset_id, call.top_n)
         IN IF r.exc = "" THEN Ok(r.val.result) ELSE Raise(r.exc)

ReturnedOf(call) == IF call.exc = "" THEN Ok(call.result) ELSE Raise(call.exc)

MixedMoments(call) ==
    {p \in [1..Len(call.pool) -> {m[i] : m \in call.moments, i \in 1..Len(call.pool)}] :
        \A i \in 1..Len(call.pool) : \E m \in call.moments : p[i] = m[i]}

IsDatasetPage ==
    /\ response.op = "subdomain_index"
    /\ response.status = 200

\* C12: the response that GET /doi/<doi>/ returns is rendered with
\* recommended_datasets, the list of recommend_simple(dataset.id, top_n=3)
\* that the handler holds in `recommended`.
Cex_C12_PageRendersRecommended ==
    IsDatasetPage
        => "recommended_datasets" \in response.context

\* ---------------------------------------------------------------------
\* C13 - C15: the trending aggregation.

\* a trending answer that carries the rows of the repository query
IsTrendingAnswer ==
    \/ response.op \in {"get_top_downloaded_datasets", "TrendingDatasetsService"}
    \/ response.op = "get_trending_datasets" /\ response.status = 200

TrendingRows ==
    IF response.op = "get_trending_datasets" THEN response.datasets
    ELSE response.results

\* the DataSet row with the given id
RowOf(id) == datasets[CHOOSE i \in 1..Len(datasets) : datasets[i].id = id]

\* the DOIs that a successful publication has assigned
PublishedDois == {fakenodo_doi(datasets[i].id) : i \in 1..Len(datasets)}

\* C13: every dataset that the trending aggregation returns has a DOI that a
\* successful publication has assigned, and no draft is returned.
Cex_C13_OnlyPublished ==
    IsTrendingAnswer
        => \A k \in DOMAIN TrendingRows :
              /\ RowOf(TrendingRows[k].id).dataset_doi # None
              /\ RowOf(TrendingRows[k].id).dataset_doi \in PublishedDois
              /\ ~RowOf(TrendingRows[k].id).is_draft

\* limit and period_days of the query behind a trending answer
AnswerLimit ==
    IF response.op = "get_trending_datasets"
    THEN (IF response.limit_arg = NoArg THEN 10 ELSE response.limit_arg)
    ELSE response.limit

\* the download records of a dataset whose download_date is inside the
\* window of the last period_days days (every record when there is none)
WindowCount(dataset_id, period_days) ==
    LET inside == {r \in DOMAIN download_records :
                      /\ r.dataset_id = dataset_id
                      /\ period_days # NoPeriod
                            => /\ now - period_days <= r.download_date
                               /\ r.download_date <= now}
    IN BagCardinality([r \in inside |-> download_records[r]])

\* the datasets that carry a DOI and are not among the returned rows
LeftOut ==
    {datasets[i].id : i \in {j \in 1..Len(datasets) : datasets[j].dataset_doi # None}}
        \ {TrendingRows[k].id : k \in DOMAIN TrendingRows}

\* C14: get_top_downloaded_datasets returns at most limit (dataset, count)
\* pairs; count is the number of download records of the dataset inside the
\* window and is at least 1; the counts do not increase along the list; no
\* dataset with a DOI that is left out has more downloads in the window than
\* a returned one.
Thm_C14_TopByCount ==
    (IsTrendingAnswer /\ (response.op = "TrendingDatasetsService" => response.queried))
        => LET rows == TrendingRows
               days == response.period_days
           IN /\ Len(rows) <= AnswerLimit
              /\ \A k \in DOMAIN rows :
                    /\ rows[k].download_count = WindowCount(rows[k].id, days)
                    /\ rows[k].download_count >= 1
              /\ \A j, k \in DOMAIN rows :
                    /\ j < k => rows[j].download_count >= rows[k].download_count
                    /\ j # k => rows[j].id # rows[k].id
              /\ \A id \in LeftOut : \A k \in DOMAIN rows :
                    WindowCount(id, days) <= rows[k].download_count

\* the weekly top 1 of the seeded log on day 24: dataset 2 with its two
\* downloads of the week, ahead of dataset 1, of whose three downloads one is
\* of the week
Wit_C14_TopByCount ==
    /\ response.op = "get_top_downloaded_datasets"
    /\ response.period_days = 7
    /\ response.limit = 1
    /\ response.results = <<[id |-> 2, download_count |-> 2]>>
    /\ WindowCount(1, NoPeriod) = 3
    /\ WindowCount(1, 7) = 1
    /\ 1 \in LeftOut

\* the service has answered / the route has answered
IsServiceAnswer == response.op = "TrendingDatasetsService"
IsRouteAnswer == response.op = "get_trending_datasets"

\* the part of C15 about the service: 'week' is 7 days, 'month' is 30 days,
\* every other period raises ValueError and does not reach the repository
ServiceValidates ==
    IsServiceAnswer
        => /\ response.period = Week
                 => response.queried /\ response.period_days = 7
           /\ response.period = Month
                 => response.queried /\ response.period_days = 30
           /\ response.period \notin {Week, Month}
                 => /\ response.exc = "ValueError"
                    /\ ~response.queried

\* period and limit of the request, with the defaults of the route
RoutePeriod == IF response.period_arg = NoneStr THEN Week ELSE response.period_arg
RouteLimit == IF response.limit_arg = NoArg THEN 10 ELSE response.limit_arg

\* C15 (as stated): the service validates the period, and the route answers
\* 400 without running the query when period is not 'week' or 'month' or
\* when limit is below 1 or above 100.
Cex_C15_RouteValidates ==
    /\ ServiceValidates
    /\ IsRouteAnswer
          => ((RoutePeriod \notin {Week, Month} \/ RouteLimit < 1 \/ RouteLimit > 100)
                 => response.status = 400 /\ ~response.queried)

\* C15 (amended): the route compares the lowercased period; it answers 400
\* without running the query when the lowercased period is not 'week' or
\* 'month' or when limit is below 1 or above 100, and otherwise runs the
\* query with 7 or 30 days.
Thm_C15_RouteValidatesLowercased ==
    /\ ServiceValidates
    /\ IsRouteAnswer
          => LET valid == /\ lower(RoutePeriod) \in {Week, Month}
                          /\ RouteLimit >= 1
                          /\ RouteLimit <= 100
             IN /\ ~valid => response.status = 400 /\ ~response.queried
                /\ valid => /\ response.status = 200
                             /\ response.queried
                             /\ response.period_days =
                                   (IF lower(RoutePeriod) = Week THEN 7 ELSE 30)

\* period=Week&limit=2 is answered with the weekly top 2
Wit_C15_RouteValidatesLowercased ==
    /\ IsRouteAnswer
    /\ response.period_arg = <<"W", "e", "e", "k">>
    /\ response.limit_arg = 2
    /\ response.status = 200
    /\ response.period_days = 7
    /\ Len(response.datasets) = 2

\* ---------------------------------------------------------------------
\* C16, C17: the download and view records.

\* the request that starts in this step is answered with `op`
IsRequestStep(op) ==
    /\ response = NoResponse
    /\ response'.op = op

\* the cookies that the records and the client hold
KnownCookies ==
    {ClientCookie} \cup {r.cookie : r \in DOMAIN view_records}
                   \cup {r.cookie : r \in DOMAIN download_records}

\* views plus downloads of a dataset in the given tables
PopularityIn(views, downloads, id) ==
    count_by_dataset(views, id) + count_by_dataset(downloads, id)

Thm_C17_ViewCookie ==
    [][(IsRequestStep("subdomain_index") /\ response'.status = 200) =>
         LET id == response'.dataset_id
             cookie == response'.view_cookie
             record == [user_id |-> response'.user_id, dataset_id |-> id,
                        cookie |-> cookie]
         IN /\ IF response'.cookie_arg # None
               THEN cookie = response'.cookie_arg
               ELSE cookie \notin KnownCookies
            /\ IF record \in DOMAIN view_records
               THEN /\ view_records' = view_records
                    /\ count_by_dataset(view_records', id)
                          = count_by_dataset(view_records, id)
               ELSE /\ view_records' = view_records (+) SetToBag({record})
                    /\ count_by_dataset(view_records', id)
                          = count_by_dataset(view_records, id) + 1
            /\ CopiesIn(record, view_records') = 1
            /\ UNCHANGED download_records]_vars

\* the page of dataset 2 has been served a second time to the anonymous
\* holder of SeedCookie, after user 1 has viewed it with the same cookie
Wit_C17_ViewCookie ==
    /\ response.op = "subdomain_index"
    /\ response.status = 200
    /\ response.user_id = None
    /\ response.cookie_arg = SeedCookie
    /\ response.existing_record
    /\ [user_id |-> 1, dataset_id |-> 2, cookie |-> SeedCookie] \in DOMAIN view_records
    /\ count_by_dataset(view_records, response.dataset_id) = 2

\* ---------------------------------------------------------------------
\* Properties of the uploads.

\* the files of a repository that the import takes, in the order of the walk
MmdItems(items) ==
    SelectSeq(items, LAMBDA item : endswith(lower(item.name), MmdExtension))

\* stored is the name for a file sent as requested into a folder with the
\* given names: requested itself when it is free, and otherwise
\* "base (i).ext" for the smallest i >= 1 whose name is free
IsFreeName(names, requested, stored) ==
    LET base == splitext(requested)[1]
        ext == splitext(requested)[2]
    IN /\ stored \notin names
       /\ IF requested \notin names
          THEN stored = requested
          ELSE \E i \in 1..(MaxFiles + 1) :
                  /\ stored = base \o <<" ", "(">> \o str_of_int(i) \o <<")">> \o ext
                  /\ \A j \in 1..(i - 1) :
                        (base \o <<" ", "(">> \o str_of_int(j) \o <<")">> \o ext)
                            \in names

\* C18: an upload or a GitHub import never overwrites or removes a file of
\* the temp folder: every file of the folder is still there with its
\* content after the request, and each file that the answer reports is
\* stored under the reported name with the content sent, a name that was
\* free: the name sent when no file had it, and otherwise "base (i).ext"
\* for the smallest i >= 1 not in use.
Thm_C18_NeverOverwrites ==
    [][(IsRequestStep("upload") \/ IsRequestStep("upload_from_github_repo")) =>
         /\ temp_folder \subseteq temp_folder'
         /\ \A f, g \in temp_folder' : f.name = g.name => f = g
         /\ (response'.op = "upload" /\ response'.status = 200) =>
               /\ [name |-> response'.json.filename,
                   content |-> response'.file.content] \in temp_folder'
               /\ IsFreeName(names_of(temp_folder), response'.file.filename,
                             response'.json.filename)
               /\ Cardinality(temp_folder') = Cardinality(temp_folder) + 1
         /\ (response'.op = "upload_from_github_repo" /\ response'.status = 200) =>
               LET sent == MmdItems(response'.items)
                   filenames == response'.json.filenames
               IN /\ Len(filenames) = Len(sent)
                  /\ \A k \in 1..Len(filenames) :
                        /\ [name |-> filenames[k],
                            content |-> sent[k].content] \in temp_folder'
                        /\ IsFreeName(names_of(temp_folder)
                                        \cup {filenames[j] : j \in 1..(k - 1)},
                                      basename(sent[k].name), filenames[k])
                  /\ Cardinality(temp_folder')
                        = Cardinality(temp_folder) + Len(sent)]_vars

\* a third upload of a.mmd is stored as "a (2).mmd" beside the two before
Wit_C18_NeverOverwrites ==
    /\ response.op = "upload"
    /\ response.status = 200
    /\ response.file.filename = NameA
    /\ response.json.filename = <<"a", " ", "(", "2", ")", ".", "m", "m", "d">>
    /\ {NameA, NameA1} \subseteq names_of(temp_folder)
    /\ \E f, g \in temp_folder : f.name # g.name /\ f.content # g.content

\* a line that, once stripped, starts with a Mermaid keyword: the keyword in
\* any case, as a whole word
IsHeaderLine(line) ==
    LET stripped == strip(line)
    IN \E kw \in keywords :
          /\ Len(stripped) >= Len(kw)
          /\ \A k \in 1..Len(kw) : lower_char(stripped[k]) = lower_char(kw[k])
          /\ Len(stripped) = Len(kw) \/ ~is_word_char(stripped[Len(kw) + 1])

HeaderLines(content) ==
    Cardinality({i \in DOMAIN splitlines(content) :
                    IsHeaderLine(splitlines(content)[i])})

\* C19: an upload of a .mmd file is accepted only when exactly one line of
\* its content, once stripped, starts with a Mermaid keyword (in any case,
\* as a whole word); a content without such a line is answered 400 "No
\* Mermaid diagram detected", a content with two or more 400 "Multiple
\* Mermaid diagrams detected", and in both cases the temp folder holds the
\* same files after the request as before it.
Thm_C19_OneDiagramPerFile ==
    [][(/\ IsRequestStep("upload")
        /\ endswith(response'.file.filename, MmdExtension)) =>
         LET n == HeaderLines(response'.file.content)
         IN /\ response'.status = 200 => n = 1
            /\ n = 0 =>
                 /\ response'.status = 400
                 /\ response'.json.message
                      = "No Mermaid diagram detected in the uploaded file"
                 /\ temp_folder' = temp_folder
            /\ n >= 2 =>
                 /\ response'.status = 400
                 /\ response'.json.message
                      = "Multiple Mermaid diagrams detected in the uploaded file. Please upload one diagram per file."
                 /\ temp_folder' = temp_folder]_vars

\* a file of two diagrams is refused while a file of its name is stored
Wit_C19_OneDiagramPerFile ==
    /\ response.op = "upload"
    /\ response.file.content = TwoDiagrams
    /\ response.status = 400
    /\ response.file.filename \in names_of(temp_folder)
    /\ \A f \in temp_folder : f.content # TwoDiagrams

\* C20: an upload of a ZIP archive to /dataset/file/upload is answered 200,
\* the member whose path leaves the upload folder is rejected with a
\* "Security" reason and is not written, and the valid .mmd members are
\* stored and reported in "filenames".
Cex_C20_ZipTraversalRejected ==
    (response.op = "upload" /\ response.file.members # <<>>) =>
        /\ response.status = 200
        /\ "filenames" \in DOMAIN response.json
        /\ "rejected" \in DOMAIN response.json
        /\ \A k \in DOMAIN response.file.members :
              LET member == response.file.members[k]
              IN IF \E i \in DOMAIN member.name : member.name[i] = "/"
                 THEN member.name \notin names_of(temp_folder)
                 ELSE member.name \in names_of(temp_folder)

\* ---------------------------------------------------------------------
\* Properties of the requests that change the dataset tables.

\* C22: GET /doi/<doi>/ on a DOI with a mapping to a new DOI answers 302
\* with the new DOI as location and creates no view record; on a DOI with
\* no mapping and no dataset it answers 404 and creates no view record; the
\* view records change only in a request that serves a dataset page.
Thm_C22_RedirectAndNotFound ==
    [][/\ IsRequestStep("subdomain_index") =>
            LET doi == response'.doi
                mapped == {m \in doi_mapping : m.dataset_doi_old = doi}
                stored == {i \in 1..Len(datasets) : datasets[i].dataset_doi = doi}
            IN /\ mapped # {} =>
                    /\ response'.status = 302
                    /\ \E m \in mapped : response'.location = m.dataset_doi_new
                    /\ view_records' = view_records
               /\ (mapped = {} /\ stored = {}) =>
                    /\ response'.status = 404
                    /\ view_records' = view_records
       /\ view_records' # view_records =>
            /\ response'.op = "subdomain_index"
            /\ response'.status = 200
            /\ \E i \in 1..Len(datasets) :
                  /\ datasets[i].dataset_doi = response'.doi
                  /\ datasets[i].id = response'.dataset_id]_vars

\* an old DOI is redirected although a dataset and a view record exist
Wit_C22_RedirectAndNotFound ==
    /\ response.op = "subdomain_index"
    /\ response.status = 302
    /\ response.doi = OldDoi
    /\ view_records # EmptyBag

\* the row of the dataset with the given id
DatasetOf(id) == datasets[CHOOSE i \in 1..Len(datasets) : datasets[i].id = id]

\* C23: the candidate pool of a recommendation is the set of published
\* datasets: no draft is among the datasets that recommend_simple returns,
\* and a target that is a draft gets no recommendations.
Cex_C23_PublishedPool ==
    (response.op = "recommend_simple" /\ response.exc = "") =>
        /\ \A k \in 1..Len(response.result) :
              ~DatasetOf(response.result[k]).is_draft
        /\ \A i \in 1..Len(datasets) :
              (datasets[i].id = response.dataset_id /\ datasets[i].is_draft)
                 => response.result = <<>>

\* C24: a dataset whose metadata has is_draft = False has a dataset_doi, so
\* the datasets selected by is_draft == 0 are the datasets selected by
\* dataset_doi IS NOT NULL, also after an upload with is_draft=false whose
\* deposition fails.
Cex_C24_SynchronizedHaveDoi ==
    /\ \A i \in 1..Len(datasets) :
          ~datasets[i].is_draft => datasets[i].dataset_doi # None
    /\ {i \in 1..Len(datasets) : ~datasets[i].is_draft}
          = {i \in 1..Len(datasets) : datasets[i].dataset_doi # None}

\* the rows that a publish or edit request names
NamedRows == {i \in 1..Len(datasets) : datasets[i].id = response'.dataset_id}

\* C25 as stated: a POST /dataset/publish/<id> that fails leaves the
\* metadata of the dataset as it was (is_draft, dataset_doi and
\* deposition_id), and is_draft becomes False and dataset_doi is set only
\* together, in a request that succeeds.
Cex_C25_FailedPublishChangesNothing ==
    [][IsRequestStep("publish_dataset") =>
         /\ response'.status # 302 => datasets' = datasets
         /\ \A i \in 1..Len(datasets) :
               (\/ datasets'[i].is_draft # datasets[i].is_draft
                \/ datasets'[i].dataset_doi # datasets[i].dataset_doi)
               => /\ response'.status = 302
                  /\ ~datasets'[i].is_draft
                  /\ datasets'[i].dataset_doi # None]_vars

\* C25, amended: a POST /dataset/publish/<id> that fails leaves is_draft
\* True and dataset_doi unchanged, and changes no other dataset; the
\* deposition_id is unchanged when no deposition was created (the creation
\* raises or the answer has no conceptrecid) and is the id of the new
\* deposition when a file upload or publish_deposition fails after it;
\* is_draft becomes False and dataset_doi is set only together, in a
\* request that succeeds.
Thm_C25_FailedPublishKeepsDraft ==
    [][IsRequestStep("publish_dataset") =>
         /\ Len(datasets') = Len(datasets)
         /\ \A i \in 1..Len(datasets) :
               /\ i \notin NamedRows => datasets'[i] = datasets[i]
               /\ response'.status # 302 =>
                     /\ datasets'[i].is_draft = datasets[i].is_draft
                     /\ datasets'[i].dataset_doi = datasets[i].dataset_doi
               /\ (response'.status = 500 /\ i \in NamedRows) =>
                     /\ datasets[i].is_draft
                     /\ IF response'.outcome \in {"deposition_error",
                                                   "no_conceptrecid"}
                        THEN datasets'[i] = datasets[i]
                        ELSE datasets'[i] =
                               [datasets[i] EXCEPT !.deposition_id = datasets[i].id]
               /\ (\/ datasets'[i].is_draft # datasets[i].is_draft
                   \/ datasets'[i].dataset_doi # datasets[i].dataset_doi)
                  => /\ response'.status = 302
                     /\ response'.outcome = "ok"
                     /\ datasets[i].is_draft /\ ~datasets'[i].is_draft
                     /\ datasets'[i].dataset_doi # None]_vars

\* a publication failed after its deposition was created: the draft keeps
\* its typed DOI and holds the id of the deposition
Wit_C25_FailedPublishKeepsDraft ==
    /\ response.op = "publish_dataset"
    /\ response.status = 500
    /\ response.outcome = "publish_error"
    /\ \E i \in 1..Len(datasets) :
          /\ datasets[i].id = response.dataset_id
          /\ datasets[i].is_draft
          /\ datasets[i].dataset_doi = FormDoi
          /\ datasets[i].deposition_id # None

\* C26: publication is irreversible and happens at most once: no request
\* changes a dataset whose is_draft is False (it never becomes a draft again
\* and its dataset_doi stays), edit_dataset and publish_dataset answer 404
\* for such a dataset, for a dataset of another user and for a missing one,
\* changing nothing, and a publication succeeds only for a draft.
Thm_C26_PublishedIsFinal ==
    [][/\ \A i \in 1..Len(datasets) :
             ~datasets[i].is_draft =>
                /\ i <= Len(datasets')
                /\ datasets'[i] = datasets[i]
       /\ (IsRequestStep("edit_dataset") \/ IsRequestStep("publish_dataset")) =>
             /\ (\A i \in NamedRows :
                    \/ ~datasets[i].is_draft
                    \/ datasets[i].user_id # response'.user_id)
                => /\ response'.status = 404
                   /\ datasets' = datasets
             /\ (response'.op = "publish_dataset" /\ response'.status = 302) =>
                   \E i \in NamedRows :
                      /\ datasets[i].is_draft
                      /\ datasets[i].user_id = response'.user_id]_vars

\* the owner asks to publish a dataset again that a publication gave its DOI
Wit_C26_PublishedIsFinal ==
    /\ response.op = "publish_dataset"
    /\ response.status = 404
    /\ \E i \in 1..Len(datasets) :
          /\ datasets[i].id = response.dataset_id
          /\ datasets[i].user_id = response.user_id
          /\ ~datasets[i].is_draft
          /\ datasets[i].dataset_doi = fakenodo_doi(datasets[i].id)
          /\ datasets[i].deposition_id # None

\* the commits and rollbacks that create_from_form calls itself
OwnCalls(events) == SelectSeq(events, LAMBDA e : e.by = "create_from_form")

\* C21: create_from_form calls commit exactly once, as its last statement,
\* and returns the created dataset when every step succeeds; when a step
\* raises it calls rollback exactly once, no commit follows the failure, and
\* the exception reaches the caller. (The commit inside the create of the
\* DSMetaData row is the repository's, not a call of create_from_form.)
Thm_C21_CommitOrRollbackOnce ==
    (response.op = "create_dataset" /\ response.outcome # "invalid_form") =>
        LET events == response.events
            own == OwnCalls(events)
        IN /\ Len(own) = 1
           /\ events[Len(events)].by = "create_from_form"
           /\ IF response.outcome \in FormFailures
              THEN /\ response.exc = response.outcome
                   /\ own[1].call = "rollback"
                   /\ response.status = 400
                   /\ response.dataset_id = None
              ELSE /\ response.exc = ""
                   /\ own[1].call = "commit"
                   /\ response.dataset_id # None
                   /\ datasets[Len(datasets)].id = response.dataset_id

\* the checksum of a missing file raises after rows of five tables were
\* added to the session
Wit_C21_CommitOrRollbackOnce ==
    /\ response.op = "create_dataset"
    /\ response.exc = "checksum"
    /\ Len(response.events) = 2
    /\ response.events[2] = [call |-> "rollback", by |-> "create_from_form"]

\* C30: dataset creation is atomic: when create_from_form raises, at
\* whatever step, no row created during the call remains persisted, so the
\* persisted rows are those before the call.
Cex_C30_CreationIsAtomic ==
    [][(IsRequestStep("create_dataset") /\ response'.exc # "") =>
         /\ persisted' = persisted
         /\ datasets' = datasets]_vars

\* C27: POST /dataset/file/delete removes at most the one file that the
\* request names, and only a file of the temp folder of the user: whatever
\* the value of "file", no file outside that folder is removed, and when
\* the folder has no file of that name nothing is removed and the answer
\* is the error message.
Cex_C27_DeleteStaysInFolder ==
    [][IsRequestStep("delete") =>
         /\ outside' = outside
         /\ temp_folder' \subseteq temp_folder
         /\ \A f \in temp_folder \ temp_folder' :
               /\ response'.filename \in {f.name, <<".", "/">> \o f.name}
               /\ temp_folder \ temp_folder' = {f}
         /\ (\A f \in temp_folder :
                response'.filename \notin {f.name, <<".", "/">> \o f.name})
            => /\ temp_folder' = temp_folder
               /\ "error" \in DOMAIN response'.json]_vars

\* C28: with sorting 'trending_week' or 'trending_month' the result of
\* ExploreRepository.filter is a permutation of the matched datasets (each
\* occurs exactly once): the matched datasets of the trending list come
\* first, in trending order, and the remaining ones follow in the order
\* they had in the matched list.
PositionIn(list, id) == CHOOSE k \in DOMAIN list : list[k] = id
IsTrending(r, d) == \E k \in DOMAIN r.trending_ids : r.trending_ids[k] = d.id
Thm_C28_TrendingSortIsPermutation ==
    (response # NoResponse /\ response.op = "ExploreRepository.filter") =>
        LET r == response
            result == r.datasets
        IN /\ Len(result) = Len(r.matched)
           /\ \A k \in DOMAIN r.matched :
                 Cardinality({i \in DOMAIN result : result[i] = r.matched[k]}) = 1
           /\ \A i, j \in DOMAIN result :
                 i < j =>
                    /\ IsTrending(r, result[j]) => IsTrending(r, result[i])
                    /\ IsTrending(r, result[j]) =>
                          PositionIn(r.trending_ids, result[i].id)
                             < PositionIn(r.trending_ids, result[j].id)
                    /\ ~IsTrending(r, result[i]) =>
                          PositionIn(r.matched, result[i])
                             < PositionIn(r.matched, result[j])

\* a result of three datasets whose two trending ones were moved in front of
\* the dataset that came first in the matched list, in trending order and
\* against their order in the matched list
Wit_C28_TrendingSortIsPermutation ==
    /\ response # NoResponse
    /\ response.op = "ExploreRepository.filter"
    /\ Len(response.datasets) = 3
    /\ IsTrending(response, response.datasets[1])
    /\ IsTrending(response, response.datasets[2])
    /\ ~IsTrending(response, response.datasets[3])
    /\ response.matched[1] = response.datasets[3]
    /\ response.matched[2] = response.datasets[2]

\* C29: after any interleaving of concurrent page views there is at most
\* one view record for a (user, dataset, view_cookie) triple.
Cex_C29_OneRecordPerTriple ==
    \A r \in DOMAIN view_records : view_records[r] <= 1

====
